---- MODULE Spec2Model ----
(***************************************************************************)
(* KontaFlow backend, resource "Grupos Economicos": the pipeline           *)
(*   auth hook -> route handler -> Zod schema -> service -> repository     *)
(* over the Prisma store, with errors translated by errorHandler.          *)
(*                                                                         *)
(* Every request runs as its own asynchronous task.  A step of the model   *)
(* is one database call of a request together with the synchronous code    *)
(* that follows it up to the next database call (Node runs that code       *)
(* without suspension).  Strings are sequences of one-character strings.   *)
(***************************************************************************)
EXTENDS Integers, Sequences, FiniteSets, TLC

VARIABLES
    usuarios,          \* table usuarios: id -> [activo]
    grupos,            \* table membresiaseconomicos: id -> row
    usuariosGrupos,    \* table usuarios_grupos: set of rows
    configuraciones,   \* table configuracion_contable: set of rows
    planesDeCuentas,   \* table planes_de_cuentas: set of rows
    empresas,          \* table empresas: set of rows
    seqGrupo,          \* last value of the id sequence of membresiaseconomicos
    reqs,              \* the requests in flight, one per slot
    nreq,              \* number of requests the run still receives
    eliminados         \* history: ids of the groups a DELETE has succeeded on

vars == <<usuarios, grupos, usuariosGrupos, configuraciones, planesDeCuentas,
          empresas, seqGrupo, reqs, nreq, eliminados>>

\* The persisted rows the API of the slice can write.
db == <<grupos, usuariosGrupos, configuraciones, planesDeCuentas, empresas>>

-----------------------------------------------------------------------------
\* Bounds of the model.

\* Highest id the sequence of membresiaseconomicos hands out (the seed group is 1).
MaxGrupoId == 2
\* Requests that can be in flight at the same time.
NumSlots == 2
\* Requests received in one behaviour.
MaxRequests == 2

Slots == 1..NumSlots

-----------------------------------------------------------------------------
\* Strings.

Digits == {"0", "1", "2", "3", "4", "5", "6", "7", "8", "9"}

\* The value null of a nullable text column (no text is equal to it).
Null == <<"null">>

\* String.prototype.trim: drop leading and trailing white space.
RECURSIVE TrimStart(_)
TrimStart(s) == IF s # <<>> /\ Head(s) = " " THEN TrimStart(Tail(s)) ELSE s

RECURSIVE TrimEnd(_)
TrimEnd(s) ==
    IF s # <<>> /\ s[Len(s)] = " " THEN TrimEnd(SubSeq(s, 1, Len(s) - 1)) ELSE s

Trim(s) == TrimEnd(TrimStart(s))

\* String.prototype.includes / toContain.
Contains(s, sub) ==
    \E i \in 1..(Len(s) - Len(sub) + 1) : SubSeq(s, i, i + Len(sub) - 1) = sub

\* /^[0-9]{12}$/.test(s)
RutLen == 12
RutRegex(s) == Len(s) = RutLen /\ \A i \in 1..Len(s) : s[i] \in Digits

\* /^\d+$/.test(s)
IdRegex(s) == Len(s) > 0 /\ \A i \in 1..Len(s) : s[i] \in Digits

DigitValue(c) ==
    CASE c = "0" -> 0 [] c = "1" -> 1 [] c = "2" -> 2 [] c = "3" -> 3
      [] c = "4" -> 4 [] c = "5" -> 5 [] c = "6" -> 6 [] c = "7" -> 7
      [] c = "8" -> 8 [] c = "9" -> 9

\* Number(s) of a string of decimal digits.
RECURSIVE DigitsToNumber(_)
DigitsToNumber(s) ==
    IF s = <<>> THEN 0
    ELSE 10 * DigitsToNumber(SubSeq(s, 1, Len(s) - 1)) + DigitValue(s[Len(s)])

\* Number(s) is NaN for the other strings of the model; NaN is -1 here.
NaN == 0 - 1
ToNumber(s) == IF IdRegex(s) THEN DigitsToNumber(s) ELSE NaN

-----------------------------------------------------------------------------
\* Schemas (validators/grupos.schema.ts).

PAISES_VALIDOS == {"UY", "AR", "BR", "CL", "CO", "PE", "MX", "US", "ES"}
MONEDAS_VALIDAS == {"UYU", "USD", "ARS", "BRL", "CLP", "COP", "PEN", "MXN", "EUR"}

NombreMin == 3
NombreMax == 200

BodyFields == {"nombre", "rutControlador", "paisPrincipal", "monedaBase", "activo"}

\* A JSON body: has = the keys present, mistyped = the keys whose value has
\* the wrong JSON type (a number where a string is required, ...).
Body(has, mistyped, nombre, rut, pais, moneda, activo) ==
    [has |-> has, mistyped |-> mistyped, nombre |-> nombre,
     rutControlador |-> rut, paisPrincipal |-> pais, monedaBase |-> moneda,
     activo |-> activo]

Issue(path, message) == [path |-> path, message |-> message]

\* A name schema without the upper limit.
NombreIssuesSinMax(b, required) ==
    IF "nombre" \notin b.has
    THEN IF required THEN {Issue("nombre", "Required")} ELSE {}
    ELSE IF "nombre" \in b.mistyped
    THEN {Issue("nombre", "Expected string")}
    ELSE IF Len(b.nombre) < NombreMin
    THEN {Issue("nombre", "El nombre debe tener al menos 3 caracteres")}
    ELSE {}

\* z.string().min(3).max(200).trim(): the checks run in the order written,
\* min and max on the text as received, trim last.
NombreIssues(b, required) ==
    IF "nombre" \notin b.has
    THEN IF required THEN {Issue("nombre", "Required")} ELSE {}
    ELSE IF "nombre" \in b.mistyped
    THEN {Issue("nombre", "Expected string")}
    ELSE (IF Len(b.nombre) < NombreMin
          THEN {Issue("nombre", "El nombre debe tener al menos 3 caracteres")}
          ELSE {})
         \cup
         (IF Len(b.nombre) > NombreMax
          THEN {Issue("nombre", "El nombre no puede exceder 200 caracteres")}
          ELSE {})

\* A tax id schema that accepts every string.
RutIssuesSinRegex(b) ==
    IF "rutControlador" \in b.has /\ "rutControlador" \in b.mistyped
    THEN {Issue("rutControlador", "Invalid input")}
    ELSE {}

\* z.string().regex(/^[0-9]{12}$/).optional().or(z.literal(''))
RutIssues(b) ==
    IF "rutControlador" \notin b.has THEN {}
    ELSE IF "rutControlador" \in b.mistyped
    THEN {Issue("rutControlador", "Invalid input")}
    ELSE IF RutRegex(b.rutControlador) \/ b.rutControlador = <<>> THEN {}
    ELSE {Issue("rutControlador", "El RUT debe tener 12 digitos")}

\* z.enum(PAISES_VALIDOS)
PaisIssues(b, required) ==
    IF "paisPrincipal" \notin b.has
    THEN IF required THEN {Issue("paisPrincipal", "Pais invalido")} ELSE {}
    ELSE IF "paisPrincipal" \in b.mistyped \/ b.paisPrincipal \notin PAISES_VALIDOS
    THEN {Issue("paisPrincipal", "Pais invalido")}
    ELSE {}

\* z.enum(MONEDAS_VALIDAS)
MonedaIssues(b, required) ==
    IF "monedaBase" \notin b.has
    THEN IF required THEN {Issue("monedaBase", "Moneda invalida")} ELSE {}
    ELSE IF "monedaBase" \in b.mistyped \/ b.monedaBase \notin MONEDAS_VALIDAS
    THEN {Issue("monedaBase", "Moneda invalida")}
    ELSE {}

\* z.boolean().optional()
ActivoIssues(b) ==
    IF "activo" \in b.has /\ "activo" \in b.mistyped
    THEN {Issue("activo", "Expected boolean")}
    ELSE {}

\* The parsed value: the name trimmed, unknown keys stripped.
ParsedDto(b, keys) ==
    [b EXCEPT !.has = b.has \cap keys, !.mistyped = {}, !.nombre = Trim(b.nombre)]

CreateKeys == {"nombre", "rutControlador", "paisPrincipal", "monedaBase"}

CreateGrupoSchema(b) ==
    LET issues == NombreIssues(b, TRUE) \cup RutIssues(b)
                  \cup PaisIssues(b, TRUE) \cup MonedaIssues(b, TRUE)
    IN  [ok |-> issues = {}, issues |-> issues, dto |-> ParsedDto(b, CreateKeys)]

UpdateGrupoSchema(b) ==
    LET issues == NombreIssues(b, FALSE) \cup RutIssues(b)
                  \cup PaisIssues(b, FALSE) \cup MonedaIssues(b, FALSE)
                  \cup ActivoIssues(b)
    IN  [ok |-> issues = {}, issues |-> issues, dto |-> ParsedDto(b, BodyFields)]

\* z.string().regex(/^\d+$/).transform(Number) on the route parameter id.
GrupoParamsSchema(idText) ==
    [ok |-> IdRegex(idText),
     issues |-> IF IdRegex(idText) THEN {}
                ELSE {Issue("id", "El ID debe ser un numero")},
     id |-> ToNumber(idText)]

-----------------------------------------------------------------------------
\* Errors (lib/errors.ts).

\* A thrown value.  class is the constructor; props are the optional own
\* properties details / field / rule that the constructors attach.
Thrown(class, statusCode, code, isOperational, message) ==
    [class |-> class, statusCode |-> statusCode, code |-> code,
     isOperational |-> isOperational, message |-> message, msgIds |-> {},
     props |-> {}, details |-> {}, field |-> "", rule |-> "",
     prismaCode |-> "", target |-> <<>>]

AppError(message, statusCode, code, isOperational) ==
    Thrown("AppError", statusCode, code, isOperational, message)

ValidationError(message, details) ==
    [AppError(message, 400, "VALIDATION_ERROR", TRUE)
        EXCEPT !.props = {"details"}, !.details = details]

\* The message carries the id only when the id is truthy (not 0).
NotFoundError(resource, ids) ==
    [AppError(resource, 404, "NOT_FOUND", TRUE)
        EXCEPT !.msgIds = {i \in ids : i # 0}]

ForbiddenError(message) == AppError(message, 403, "FORBIDDEN", TRUE)

UnauthorizedError(message) == AppError(message, 401, "UNAUTHORIZED", TRUE)

ConflictError(message, field) ==
    [AppError(message, 409, "CONFLICT", TRUE)
        EXCEPT !.props = IF field # "" THEN {"field"} ELSE {}, !.field = field]

BusinessRuleError(message, rule) ==
    [AppError(message, 422, "BUSINESS_RULE_VIOLATION", TRUE)
        EXCEPT !.props = IF rule # "" THEN {"rule"} ELSE {}, !.rule = rule]

\* What the libraries throw.
ZodError(issues) ==
    [Thrown("ZodError", 0, "", FALSE, "zod") EXCEPT !.details = issues]

PrismaValidationError ==
    Thrown("PrismaClientValidationError", 0, "", FALSE, "prisma")

PrismaKnownError(prismaCode, target) ==
    [Thrown("PrismaClientKnownRequestError", 0, "", FALSE, "prisma")
        EXCEPT !.prismaCode = prismaCode, !.target = target]

PlainError(statusCode) == Thrown("Error", statusCode, "", FALSE, "error")

\* A handlePrismaError that does not know P2003.
handlePrismaErrorSinP2003(error) ==
    IF error.prismaCode = "P2002"
    THEN ConflictError("Ya existe un registro con ese campo",
                       IF error.target # <<>> THEN error.target[1] ELSE "campo")
    ELSE IF error.prismaCode = "P2025"
    THEN NotFoundError("Registro", {})
    ELSE AppError("Error en la base de datos", 500, "DATABASE_ERROR", FALSE)

handlePrismaError(error) ==
    IF error.prismaCode = "P2002"
    THEN ConflictError("Ya existe un registro con ese campo",
                       IF error.target # <<>> THEN error.target[1] ELSE "campo")
    ELSE IF error.prismaCode = "P2025"
    THEN NotFoundError("Registro", {})
    ELSE IF error.prismaCode = "P2003"
    THEN BusinessRuleError("No se puede completar la operacion", "")
    ELSE AppError("Error en la base de datos", 500, "DATABASE_ERROR", FALSE)

handleZodError(error) ==
    ValidationError("Error de validacion en los datos enviados", error.details)

-----------------------------------------------------------------------------
\* Responses and the error handler (middleware/error-handler.ts).

NoData == <<>>
NoPagination == [page |-> 0, limit |-> 0, total |-> 0, totalPages |-> 0]

Response(status, code, message) ==
    [status |-> status, code |-> code, message |-> message, msgIds |-> {},
     props |-> {}, details |-> {}, field |-> "", rule |-> "",
     data |-> NoData, pagination |-> NoPagination, success |-> FALSE]

NoResponse == Response(0, "", "")

\* reply.send(...) of a handler that completed.
Success(status, data, message) ==
    [Response(status, "", message) EXCEPT !.data = data]

\* An error handler that looks at statusCode before the class of the error.
errorHandlerStatusPrimero(error) ==
    IF error.statusCode = 404
    THEN Response(404, "NOT_FOUND", "Endpoint no encontrado")
    ELSE IF error.statusCode = 413
    THEN Response(413, "PAYLOAD_TOO_LARGE", "El archivo o payload es demasiado grande")
    ELSE IF error.class = "AppError"
    THEN [Response(error.statusCode, error.code, error.message)
            EXCEPT !.msgIds = error.msgIds, !.props = error.props,
                   !.details = error.details, !.field = error.field,
                   !.rule = error.rule]
    ELSE IF error.class = "ZodError"
    THEN LET v == handleZodError(error)
         IN  [Response(400, "VALIDATION_ERROR", v.message)
                EXCEPT !.props = {"details"}, !.details = v.details]
    ELSE IF error.class \in {"PrismaClientKnownRequestError",
                             "PrismaClientValidationError"}
    THEN LET p == handlePrismaError(error)
         IN  [Response(p.statusCode, p.code, p.message) EXCEPT !.msgIds = p.msgIds]
    ELSE Response(500, "INTERNAL_ERROR", "Ocurrio un error inesperado")

errorHandler(error) ==
    IF error.class = "AppError"
    THEN [Response(error.statusCode, error.code, error.message)
            EXCEPT !.msgIds = error.msgIds, !.props = error.props,
                   !.details = error.details, !.field = error.field,
                   !.rule = error.rule]
    ELSE IF error.class = "ZodError"
    THEN LET v == handleZodError(error)
         IN  [Response(400, "VALIDATION_ERROR", v.message)
                EXCEPT !.props = {"details"}, !.details = v.details]
    ELSE IF error.class \in {"PrismaClientKnownRequestError",
                             "PrismaClientValidationError"}
    THEN LET p == handlePrismaError(error)
         IN  [Response(p.statusCode, p.code, p.message) EXCEPT !.msgIds = p.msgIds]
    ELSE IF error.statusCode = 404
    THEN Response(404, "NOT_FOUND", "Endpoint no encontrado")
    ELSE IF error.statusCode = 413
    THEN Response(413, "PAYLOAD_TOO_LARGE", "El archivo o payload es demasiado grande")
    ELSE Response(500, "INTERNAL_ERROR", "Ocurrio un error inesperado")

-----------------------------------------------------------------------------
\* Business validation (services/grupos.service.ts).

\* JavaScript truthiness of an optional text field of a DTO (undefined and
\* the empty string are falsy).
Truthy(dto, f) == f \in dto.has /\ Len(dto[f]) > 0

MonedasUY == {"UYU", "USD"}

\* validarDatosGrupo: <<>> when it returns, <<error>> when it throws.
validarDatosGrupo(data) ==
    IF Truthy(data, "nombre") /\ Len(Trim(data.nombre)) < NombreMin
    THEN <<BusinessRuleError("El nombre debe tener al menos 3 caracteres", "")>>
    ELSE IF Truthy(data, "rutControlador") /\ ~RutRegex(data.rutControlador)
    THEN <<BusinessRuleError("El RUT debe tener 12 digitos numericos", "")>>
    ELSE IF /\ "paisPrincipal" \in data.has
            /\ data.paisPrincipal = "UY"
            /\ "monedaBase" \in data.has
            /\ data.monedaBase \notin MonedasUY
    THEN <<BusinessRuleError("Para Uruguay, la moneda base debe ser UYU o USD",
                             "MONEDA_INVALIDA_PAIS")>>
    ELSE <<>>

\* An actualizar that validates only when the patch carries a name.
ActualizarValidaNombre(data) == Truthy(data, "nombre")

\* The condition under which actualizar runs validarDatosGrupo.
ActualizarValida(data) ==
    Truthy(data, "nombre") \/ "paisPrincipal" \in data.has \/ "monedaBase" \in data.has

-----------------------------------------------------------------------------
\* Rows and queries (repositories/grupos.repository.ts).

GrupoRow(id, nombre, rut, pais, moneda, activo, fecha) ==
    [id |-> id, nombre |-> nombre, rutControlador |-> rut, paisPrincipal |-> pais,
     monedaBase |-> moneda, activo |-> activo, fechaCreacion |-> fecha]

UsuarioGrupoRow(usuarioId, grupoId, rol) ==
    [usuarioId |-> usuarioId, grupoEconomicoId |-> grupoId, rol |-> rol]

\* The defaults written by create (repository lines 150-161).
MontoMinimoAprobacion == 50000
DecimalesMonto == 2
DecimalesTipoCambio == 4

ConfiguracionRow(grupoId) ==
    [grupoEconomicoId |-> grupoId,
     permitirAsientosEnPeriodoCerrado |-> FALSE,
     requiereAprobacionGlobal |-> FALSE,
     montoMinimoAprobacion |-> MontoMinimoAprobacion,
     permitirAsientosDescuadrados |-> FALSE,
     decimalesMonto |-> DecimalesMonto,
     decimalesTipoCambio |-> DecimalesTipoCambio]

\* "Plan de cuentas - "
PlanPrefix == <<"P", "l", "a", "n", " ", "d", "e", " ", "c", "u", "e", "n", "t",
                "a", "s", " ", "-", " ">>

PlanRow(grupoId, nombreGrupo) ==
    [grupoEconomicoId |-> grupoId, nombre |-> PlanPrefix \o nombreGrupo, activo |-> TRUE]

EmpresaRow(id, grupoId, activa) ==
    [id |-> id, grupoEconomicoId |-> grupoId, activa |-> activa]

\* A snapshot of the tables a query reads: the committed rows, or the
\* committed rows plus the rows of the transaction that runs the query.
Tables(g, ug, conf, plan, emp) ==
    [grupos |-> g, usuariosGrupos |-> ug, configuraciones |-> conf,
     planesDeCuentas |-> plan, empresas |-> emp]

\* A group with the relations findById includes.
GrupoView(t, id) ==
    [grupo |-> t.grupos[id],
     empresas |-> {e \in t.empresas : e.grupoEconomicoId = id},
     planDeCuentas |-> {p \in t.planesDeCuentas : p.grupoEconomicoId = id},
     configuracion |-> {c \in t.configuraciones : c.grupoEconomicoId = id}]

\* The group update returns: it includes the companies and the chart.
UpdateView(t, id) ==
    [grupo |-> t.grupos[id],
     empresas |-> {e \in t.empresas : e.grupoEconomicoId = id},
     planDeCuentas |-> {p \in t.planesDeCuentas : p.grupoEconomicoId = id}]

\* A findById that finds active groups only.
findByIdActivo(t, id) ==
    IF id \in DOMAIN t.grupos /\ t.grupos[id].activo THEN <<GrupoView(t, id)>> ELSE <<>>

\* findById: <<>> is null.
findById(t, id) == IF id \in DOMAIN t.grupos THEN <<GrupoView(t, id)>> ELSE <<>>

\* An exists that finds every id.
existsSiempre(t, id) == TRUE

\* exists: count({where: {id}}) > 0
exists(t, id) == Cardinality({i \in DOMAIN t.grupos : i = id}) > 0

\* An access check that asks for the role ADMIN.
verificarAccesoAdmin(t, grupoId, usuarioId) ==
    \E a \in t.usuariosGrupos :
        a.usuarioId = usuarioId /\ a.grupoEconomicoId = grupoId /\ a.rol = "ADMIN"

\* verificarAccesoUsuario: a row (usuarioId, grupoEconomicoId) exists.
verificarAccesoUsuario(t, grupoId, usuarioId) ==
    \E a \in t.usuariosGrupos : a.usuarioId = usuarioId /\ a.grupoEconomicoId = grupoId

\* An update that writes activo: true when the patch does not carry it.
UpdateDataReactiva(row, data) ==
    [row EXCEPT
        !.nombre = IF Truthy(data, "nombre") THEN data.nombre ELSE @,
        !.rutControlador =
            IF "rutControlador" \in data.has
            THEN (IF Len(data.rutControlador) > 0 THEN data.rutControlador ELSE Null)
            ELSE @,
        !.paisPrincipal = IF "paisPrincipal" \in data.has THEN data.paisPrincipal ELSE @,
        !.monedaBase = IF "monedaBase" \in data.has THEN data.monedaBase ELSE @,
        !.activo = IF "activo" \in data.has THEN data.activo ELSE TRUE]

\* The data of prisma.grupoEconomico.update in update(id, data).
UpdateData(row, data) ==
    [row EXCEPT
        !.nombre = IF Truthy(data, "nombre") THEN data.nombre ELSE @,
        !.rutControlador =
            IF "rutControlador" \in data.has
            THEN (IF Len(data.rutControlador) > 0 THEN data.rutControlador ELSE Null)
            ELSE @,
        !.paisPrincipal = IF "paisPrincipal" \in data.has THEN data.paisPrincipal ELSE @,
        !.monedaBase = IF "monedaBase" \in data.has THEN data.monedaBase ELSE @,
        !.activo = IF "activo" \in data.has THEN data.activo ELSE @]

\* A delete that also clears the tax id.
DeleteDataBorraRut(row) == [row EXCEPT !.activo = FALSE, !.rutControlador = Null]

\* The data of prisma.grupoEconomico.update in delete(id).
DeleteData(row) == [row EXCEPT !.activo = FALSE]

\* The row tx.grupoEconomico.create inserts; activo takes the column default.
GrupoDefaultActivo == TRUE
CreateData(id, data) ==
    GrupoRow(id, data.nombre,
             IF Truthy(data, "rutControlador") THEN data.rutControlador ELSE Null,
             data.paisPrincipal, data.monedaBase, GrupoDefaultActivo, id)

-----------------------------------------------------------------------------
\* Listing (ListGruposQuerySchema, findMany, findByUsuarioId).

\* The value undefined of an optional text.
Undefined == <<"undefined">>

Query(page, limit, search, activo, pais) ==
    [page |-> page, limit |-> limit, search |-> search, activo |-> activo,
     paisPrincipal |-> pais]

\* Number(text) of a query text, in tenths, so that a text with one decimal
\* ("1.5") has its own value: digits give an integer, the empty text gives
\* 0, and a text that is no number gives NaN.
Decimal(s) ==
    IF s = <<>> THEN 0
    ELSE IF IdRegex(s) THEN 10 * DigitsToNumber(s)
    ELSE IF /\ Len(s) >= 3
            /\ s[Len(s) - 1] = "."
            /\ IdRegex(SubSeq(s, 1, Len(s) - 2))
            /\ s[Len(s)] \in Digits
    THEN 10 * DigitsToNumber(SubSeq(s, 1, Len(s) - 2)) + DigitValue(s[Len(s)])
    ELSE NaN

\* The number x, in tenths, is an integer.
Entero(x) == x % 10 = 0

PageDefault == <<"1">>
LimitDefault == <<"1", "0">>
LimitMax == 100

ListGruposQuerySchema(q) ==
    LET page == Decimal(IF q.page = Undefined THEN PageDefault ELSE q.page)
        limit == Decimal(IF q.limit = Undefined THEN LimitDefault ELSE q.limit)
        issues ==
            (IF page > 0 THEN {} ELSE {Issue("page", "La pagina debe ser mayor a 0")})
            \cup
            (IF limit > 0 /\ limit <= 10 * LimitMax THEN {}
             ELSE {Issue("limit", "El limite debe estar entre 1 y 100")})
            \cup
            (IF q.paisPrincipal = "" \/ q.paisPrincipal \in PAISES_VALIDOS THEN {}
             ELSE {Issue("paisPrincipal", "Invalid enum value")})
    IN  [ok |-> issues = {}, issues |-> issues,
         filters |-> [page |-> page, limit |-> limit, search |-> q.search,
                      activo |-> IF q.activo = <<"t", "r", "u", "e">> THEN "true"
                                 ELSE IF q.activo = <<"f", "a", "l", "s", "e">>
                                 THEN "false" ELSE "undefined",
                      paisPrincipal |-> q.paisPrincipal]]

NoFilters == [page |-> 0, limit |-> 0, search |-> Undefined, activo |-> "undefined",
              paisPrincipal |-> ""]

\* Lower case of the letters the model's texts use.
ToLower(c) ==
    CASE c = "A" -> "a" [] c = "B" -> "b" [] c = "C" -> "c" [] c = "G" -> "g"
      [] c = "P" -> "p" [] c = "T" -> "t" [] c = "X" -> "x" [] c = "Y" -> "y"
      [] c = "Z" -> "z" [] OTHER -> c

LowerCase(s) == [i \in 1..Len(s) |-> ToLower(s[i])]

\* contains with mode 'insensitive'; null matches nothing.
ContainsInsensitive(s, sub) == s # Null /\ Contains(LowerCase(s), LowerCase(sub))

\* The where clause of findMany.
\* A where clause that never filters on activo.
WhereSinActivo(filters, row) ==
    /\ (filters.search # Undefined /\ Len(filters.search) > 0)
          => \/ ContainsInsensitive(row.nombre, filters.search)
             \/ ContainsInsensitive(row.rutControlador, filters.search)
    /\ filters.paisPrincipal # "" => row.paisPrincipal = filters.paisPrincipal

\* where of findMany: search, activo and paisPrincipal, each only when given.
Where(filters, row) ==
    /\ (filters.search # Undefined /\ Len(filters.search) > 0)
          => \/ ContainsInsensitive(row.nombre, filters.search)
             \/ ContainsInsensitive(row.rutControlador, filters.search)
    /\ filters.activo # "undefined" => row.activo = (filters.activo = "true")
    /\ filters.paisPrincipal # "" => row.paisPrincipal = filters.paisPrincipal

\* The ids of a set of rows by fechaCreacion descending.
RECURSIVE OrderByFechaDesc(_)
OrderByFechaDesc(rows) ==
    IF rows = {} THEN <<>>
    ELSE LET first == CHOOSE r \in rows :
                          \A o \in rows : o.fechaCreacion <= r.fechaCreacion
         IN  <<first>> \o OrderByFechaDesc(rows \ {first})

\* The select of findMany, _count.empresas included.
ListRow(t, row) ==
    [grupo |-> row,
     countEmpresas |-> Cardinality({e \in t.empresas : e.grupoEconomicoId = row.id})]

Matching(t, filters) == {t.grupos[i] : i \in {j \in DOMAIN t.grupos : Where(filters, t.grupos[j])}}

\* A skip that also passes over the page asked for.
SkipPaginaEntera(filters) == filters.page * filters.limit

\* skip = (page - 1) * limit, in hundredths, page and limit being tenths.
Skip(filters) == (filters.page - 10) * filters.limit

\* Prisma takes skip and take when they are integers, skip not negative;
\* otherwise the query is rejected with a PrismaClientValidationError.
FindManyArgsOk(filters) ==
    /\ Skip(filters) >= 0
    /\ Skip(filters) % 100 = 0
    /\ Entero(filters.limit)

\* prisma.grupoEconomico.findMany({where, skip, take, orderBy})
FindManyRows(t, filters) ==
    LET ordered == OrderByFechaDesc(Matching(t, filters))
        skip == Skip(filters) \div 100
        take == filters.limit \div 10
        last == IF skip + take < Len(ordered) THEN skip + take
                ELSE Len(ordered)
    IN  [i \in 1..(IF last > skip THEN last - skip ELSE 0) |->
            ListRow(t, ordered[skip + i])]

\* prisma.grupoEconomico.count({where})
FindManyCount(t, filters) == Cardinality(Matching(t, filters))

\* Math.ceil(total / limit)
Ceil(total, limit) == (total + limit - 1) \div limit

Pagination(filters, total) ==
    [page |-> filters.page, limit |-> filters.limit, total |-> total,
     totalPages |-> Ceil(total, filters.limit \div 10)]

\* Order of the characters of the model's texts.
CharOrder == <<" ", "0", "1", "2", "3", "4", "5", "6", "7", "8", "9",
               "a", "b", "c", "g", "p", "t", "x", "y", "z">>
CharRank(c) == CHOOSE i \in 1..Len(CharOrder) : CharOrder[i] = c

RECURSIVE TextLeq(_, _)
TextLeq(a, b) ==
    IF a = <<>> THEN TRUE
    ELSE IF b = <<>> THEN FALSE
    ELSE IF Head(a) = Head(b) THEN TextLeq(Tail(a), Tail(b))
    ELSE CharRank(Head(a)) < CharRank(Head(b))

\* A findByUsuarioId without orderBy: the rows in any order.
FindByUsuarioIdSinOrden(t, usuarioId) ==
    LET ids == {i \in DOMAIN t.grupos : verificarAccesoUsuario(t, i, usuarioId)}
        n == Cardinality(ids)
    IN  {out \in [1..n -> {t.grupos[i] : i \in ids}] :
            \A i \in ids : \E k \in 1..n : out[k].id = i}

\* findByUsuarioId: the groups with a membership of the user, by name
\* ascending; rows of equal name come in an order the store chooses.
FindByUsuarioIdResults(t, usuarioId) ==
    LET ids == {i \in DOMAIN t.grupos : verificarAccesoUsuario(t, i, usuarioId)}
        n == Cardinality(ids)
    IN  {out \in [1..n -> {t.grupos[i] : i \in ids}] :
            /\ \A i \in ids : \E k \in 1..n : out[k].id = i
            /\ \A k \in 1..n : \A l \in 1..n :
                  k < l => TextLeq(out[k].nombre, out[l].nombre)}

-----------------------------------------------------------------------------
\* Authentication (middleware/auth.ts).

\* An authenticateUser that does not ask for a membership.
authenticateUserSinGrupos(us, ug, header, lookup) ==
    IF header = Undefined \/ header = <<>>
    THEN <<UnauthorizedError("No se proporciono autenticacion")>>
    ELSE IF lookup = "throws" \/ ToNumber(header) = NaN
    THEN <<UnauthorizedError("Error al autenticar usuario")>>
    ELSE IF ToNumber(header) \notin DOMAIN us
    THEN <<UnauthorizedError("Usuario no encontrado")>>
    ELSE IF ~us[ToNumber(header)].activo
    THEN <<ForbiddenError("Usuario desactivado")>>
    ELSE <<>>

\* An authenticateUser without its catch: a failing lookup leaves as it is.
authenticateUserSinCatch(us, ug, header, lookup) ==
    IF header = Undefined \/ header = <<>>
    THEN <<UnauthorizedError("No se proporciono autenticacion")>>
    ELSE IF lookup = "throws" \/ ToNumber(header) = NaN
    THEN <<PlainError(0)>>
    ELSE IF ToNumber(header) \notin DOMAIN us
    THEN <<UnauthorizedError("Usuario no encontrado")>>
    ELSE IF ~us[ToNumber(header)].activo
    THEN <<ForbiddenError("Usuario desactivado")>>
    ELSE IF {a \in ug : a.usuarioId = ToNumber(header)} = {}
    THEN <<ForbiddenError("Usuario sin grupo economico asignado")>>
    ELSE <<>>

\* An authenticateUser that lets a request without the header through.
authenticateUserSinHeader(us, ug, header, lookup) ==
    IF header = Undefined \/ header = <<>>
    THEN <<>>
    ELSE IF lookup = "throws" \/ ToNumber(header) = NaN
    THEN <<UnauthorizedError("Error al autenticar usuario")>>
    ELSE IF ToNumber(header) \notin DOMAIN us
    THEN <<UnauthorizedError("Usuario no encontrado")>>
    ELSE IF ~us[ToNumber(header)].activo
    THEN <<ForbiddenError("Usuario desactivado")>>
    ELSE IF {a \in ug : a.usuarioId = ToNumber(header)} = {}
    THEN <<ForbiddenError("Usuario sin grupo economico asignado")>>
    ELSE <<>>

\* authenticateUser: <<>> when it attaches request.user, <<error>> when it
\* throws.  lookup = "throws" is a failing prisma.usuario.findUnique.
authenticateUser(us, ug, header, lookup) ==
    IF header = Undefined \/ header = <<>>
    THEN <<UnauthorizedError("No se proporciono autenticacion")>>
    ELSE IF lookup = "throws" \/ ToNumber(header) = NaN
    THEN <<UnauthorizedError("Error al autenticar usuario")>>
    ELSE IF ToNumber(header) \notin DOMAIN us
    THEN <<UnauthorizedError("Usuario no encontrado")>>
    ELSE IF ~us[ToNumber(header)].activo
    THEN <<ForbiddenError("Usuario desactivado")>>
    ELSE IF {a \in ug : a.usuarioId = ToNumber(header)} = {}
    THEN <<ForbiddenError("Usuario sin grupo economico asignado")>>
    ELSE <<>>

-----------------------------------------------------------------------------
\* Requests.

EmptyBody == Body({}, {}, <<>>, <<>>, "", "", FALSE)
EmptyQuery == Query(Undefined, Undefined, Undefined, Undefined, "")

\* The rows a transaction has written and not yet committed.
NoTx == [grupos |-> <<>>, usuariosGrupos |-> {}, configuraciones |-> {},
         planesDeCuentas |-> {}]

\* request.user before authenticateUser attaches it.
NoUser == [id |-> 0, email |-> "", nombre |-> "", grupoEconomicoId |-> 0, rol |-> ""]

IdleReq ==
    [pc |-> "idle", op |-> "", header |-> Undefined, lookup |-> "ok",
     idText |-> <<>>, body |-> EmptyBody, query |-> EmptyQuery,
     user |-> NoUser, usuarioId |-> 0, id |-> 0, data |-> EmptyBody,
     filters |-> NoFilters,
     tx |-> NoTx, found |-> <<>>, pending |-> {}, rows |-> <<>>, total |-> 0,
     resp |-> NoResponse, error |-> <<>>, dbError |-> FALSE, wrote |-> FALSE,
     leido |-> <<>>, contado |-> <<>>]

\* The committed rows.
Committed == Tables(grupos, usuariosGrupos, configuraciones, planesDeCuentas, empresas)

\* The committed rows together with the rows written by a transaction.
WithTx(t, tx) ==
    Tables([i \in DOMAIN t.grupos \cup {tx.grupos[k].id : k \in 1..Len(tx.grupos)} |->
               IF i \in DOMAIN t.grupos THEN t.grupos[i]
               ELSE (CHOOSE g \in {tx.grupos[k] : k \in 1..Len(tx.grupos)} : g.id = i)],
           t.usuariosGrupos \cup tx.usuariosGrupos,
           t.configuraciones \cup tx.configuraciones,
           t.planesDeCuentas \cup tx.planesDeCuentas,
           t.empresas)

\* A rollback that keeps the rows the transaction had written.
AfterRollbackParcial(t, tx) == WithTx(t, tx)

\* prisma.$transaction: when the callback throws the transaction is rolled
\* back and the store keeps the committed rows.
AfterRollback(t, tx) == t

\* prisma.$transaction: the queries of the callback (the client tx) read the
\* committed rows and the rows of their own transaction.
TxSnapshot(t, tx) == WithTx(t, tx)

\* A read that also sees the rows of the open transactions.
VisibleSinCommit(t, txs) ==
    LET nuevos == {tx.grupos[1] : tx \in {x \in txs : Len(x.grupos) > 0}}
    IN  Tables([i \in DOMAIN t.grupos \cup {g.id : g \in nuevos} |->
                   IF i \in DOMAIN t.grupos THEN t.grupos[i]
                   ELSE (CHOOSE g \in nuevos : g.id = i)],
               t.usuariosGrupos \cup UNION {tx.usuariosGrupos : tx \in txs},
               t.configuraciones \cup UNION {tx.configuraciones : tx \in txs},
               t.planesDeCuentas \cup UNION {tx.planesDeCuentas : tx \in txs},
               t.empresas)

\* The rows a query of the client prisma reads, given the committed rows t
\* and the transactions txs that are open: the committed rows only.
Visible(t, txs) == t

\* The transactions that are open.
OpenTxs == {reqs[s].tx : s \in Slots}

\* What a query outside a transaction reads.
Read == Visible(Committed, OpenTxs)

SetTables(t) ==
    /\ grupos' = t.grupos
    /\ usuariosGrupos' = t.usuariosGrupos
    /\ configuraciones' = t.configuraciones
    /\ planesDeCuentas' = t.planesDeCuentas
    /\ empresas' = t.empresas

\* The request of slot r ends with this response.
Finish(r, req, resp) ==
    reqs' = [reqs EXCEPT ![r] = [req EXCEPT !.pc = "done", !.resp = resp,
                                            !.tx = NoTx]]

\* An error leaves the hook or the handler: Fastify passes it to the error
\* handler set on the instance, which sends the response.
Throw(r, req, error) ==
    Finish(r, [req EXCEPT !.error = <<error>>], errorHandler(error))

\* The request of slot r waits for its next database call.
Continue(r, req, pc) == reqs' = [reqs EXCEPT ![r] = [req EXCEPT !.pc = pc]]

\* A request arrives at an idle slot: the preHandler hook runs
\* authenticateUser; then, in the route handler, the schemas.
Arrives(r) == reqs[r].pc = "idle" /\ nreq > 0

Arrival(op, header, lookup) ==
    [IdleReq EXCEPT !.op = op, !.header = header, !.lookup = lookup]

Auth(req) == authenticateUser(usuarios, usuariosGrupos, req.header, req.lookup)

\* request.user as authenticateUser attaches it: usuario.grupos[0] is the
\* membership the query returns first, and the query states no order.
RequestUsers(req) ==
    LET id == ToNumber(req.header)
        membresias == {x \in usuariosGrupos : x.usuarioId = id}
    IN  IF Auth(req) # <<>> \/ membresias = {} \/ id \notin DOMAIN usuarios THEN {NoUser}
        ELSE {[id |-> id, email |-> usuarios[id].email, nombre |-> usuarios[id].nombre,
               grupoEconomicoId |-> a.grupoEconomicoId, rol |-> a.rol] : a \in membresias}

\* The request as the handler gets it; its calls pass request.user.id on.
Authenticated(req, u) == [req EXCEPT !.user = u, !.usuarioId = u.id]

\* GET /api/grupos
ListarReq(r, header, lookup, query) ==
    LET req == [Arrival("listar", header, lookup) EXCEPT !.query = query]
        parsed == ListGruposQuerySchema(query)
    IN  /\ Arrives(r)
        /\ nreq' = nreq - 1
        /\ \E u \in RequestUsers(req) : IF Auth(req) # <<>> THEN Throw(r, req, Auth(req)[1])
           ELSE IF ~parsed.ok
           THEN Throw(r, Authenticated(req, u), ZodError(parsed.issues))
           ELSE Continue(r, [Authenticated(req, u) EXCEPT !.filters = parsed.filters,
                                                      !.pending = {"rows", "count"}],
                         "findMany")
        /\ UNCHANGED <<usuarios, eliminados, db, seqGrupo>>

\* GET /api/grupos/mis-grupos
MisGruposReq(r, header, lookup) ==
    LET req == Arrival("misGrupos", header, lookup)
    IN  /\ Arrives(r)
        /\ nreq' = nreq - 1
        /\ \E u \in RequestUsers(req) : IF Auth(req) # <<>> THEN Throw(r, req, Auth(req)[1])
           ELSE Continue(r, Authenticated(req, u), "findByUsuarioId")
        /\ UNCHANGED <<usuarios, eliminados, db, seqGrupo>>

\* GET /api/grupos/:id
ObtenerReq(r, header, lookup, idText) ==
    LET req == [Arrival("obtener", header, lookup) EXCEPT !.idText = idText]
        params == GrupoParamsSchema(idText)
    IN  /\ Arrives(r)
        /\ nreq' = nreq - 1
        /\ \E u \in RequestUsers(req) : IF Auth(req) # <<>> THEN Throw(r, req, Auth(req)[1])
           ELSE IF ~params.ok
           THEN Throw(r, Authenticated(req, u), ZodError(params.issues))
           ELSE Continue(r, [Authenticated(req, u) EXCEPT !.id = params.id], "findById")
        /\ UNCHANGED <<usuarios, eliminados, db, seqGrupo>>

\* Creates that have not yet drawn their id from the sequence.
CreatesWaiting == Cardinality({s \in Slots : reqs[s].pc = "insertGrupo"})

\* POST /api/grupos
CrearReq(r, header, lookup, body) ==
    LET req == [Arrival("crear", header, lookup) EXCEPT !.body = body]
        parsed == CreateGrupoSchema(body)
        invalid == validarDatosGrupo(parsed.dto)
    IN  /\ Arrives(r)
        /\ seqGrupo + CreatesWaiting < MaxGrupoId
        /\ nreq' = nreq - 1
        /\ \E u \in RequestUsers(req) : IF Auth(req) # <<>> THEN Throw(r, req, Auth(req)[1])
           ELSE IF ~parsed.ok
           THEN Throw(r, Authenticated(req, u), ZodError(parsed.issues))
           ELSE IF invalid # <<>>
           THEN Throw(r, Authenticated(req, u), invalid[1])
           ELSE Continue(r, [Authenticated(req, u) EXCEPT !.data = parsed.dto],
                         "insertGrupo")
        /\ UNCHANGED <<usuarios, eliminados, db, seqGrupo>>

\* PUT /api/grupos/:id
ActualizarReq(r, header, lookup, idText, body) ==
    LET req == [Arrival("actualizar", header, lookup)
                   EXCEPT !.idText = idText, !.body = body]
        params == GrupoParamsSchema(idText)
        parsed == UpdateGrupoSchema(body)
    IN  /\ Arrives(r)
        /\ nreq' = nreq - 1
        /\ \E u \in RequestUsers(req) : IF Auth(req) # <<>> THEN Throw(r, req, Auth(req)[1])
           ELSE IF ~params.ok
           THEN Throw(r, Authenticated(req, u), ZodError(params.issues))
           ELSE IF ~parsed.ok
           THEN Throw(r, Authenticated(req, u), ZodError(parsed.issues))
           ELSE Continue(r, [Authenticated(req, u) EXCEPT !.id = params.id,
                                                      !.data = parsed.dto],
                         "exists")
        /\ UNCHANGED <<usuarios, eliminados, db, seqGrupo>>

\* DELETE /api/grupos/:id
EliminarReq(r, header, lookup, idText) ==
    LET req == [Arrival("eliminar", header, lookup) EXCEPT !.idText = idText]
        params == GrupoParamsSchema(idText)
    IN  /\ Arrives(r)
        /\ nreq' = nreq - 1
        /\ \E u \in RequestUsers(req) : IF Auth(req) # <<>> THEN Throw(r, req, Auth(req)[1])
           ELSE IF ~params.ok
           THEN Throw(r, Authenticated(req, u), ZodError(params.issues))
           ELSE Continue(r, [Authenticated(req, u) EXCEPT !.id = params.id], "findById")
        /\ UNCHANGED <<usuarios, eliminados, db, seqGrupo>>

-----------------------------------------------------------------------------
\* The database calls of the handlers, one step each.

At(r, op, pc) == reqs[r].op = op /\ reqs[r].pc = pc

NoAccessError == ForbiddenError("No tienes acceso a este grupo economico")

\* listar -> findMany: the page query of Promise.all.
ListResponse(req, rows, total) ==
    [Success(200, rows, "") EXCEPT !.pagination = Pagination(req.filters, total)]

\* A page query that returns only the groups of the caller.
ListarRowsDelUsuario(r) ==
    LET req == reqs[r]
        propios == [Read EXCEPT !.grupos =
                       [i \in {j \in DOMAIN Read.grupos :
                                  verificarAccesoUsuario(Read, j, req.usuarioId)}
                           |-> Read.grupos[i]]]
        rows == FindManyRows(propios, req.filters)
        next == [req EXCEPT !.rows = rows, !.pending = @ \ {"rows"},
                            !.leido = <<Read.grupos>>]
    IN  /\ At(r, "listar", "findMany")
        /\ "rows" \in req.pending
        /\ IF ~FindManyArgsOk(req.filters)
           THEN Throw(r, req, PrismaValidationError)
           ELSE IF next.pending = {}
           THEN Finish(r, next, ListResponse(next, next.rows, next.total))
           ELSE Continue(r, next, "findMany")
        /\ UNCHANGED <<usuarios, eliminados, db, seqGrupo, nreq>>

\* listar -> findMany: the page query of Promise.all.  leido and contado
\* record the table each of the two queries read.
ListarRows(r) ==
    LET req == reqs[r]
        rows == FindManyRows(Read, req.filters)
        next == [req EXCEPT !.rows = rows, !.pending = @ \ {"rows"},
                            !.leido = <<Read.grupos>>]
    IN  /\ At(r, "listar", "findMany")
        /\ "rows" \in req.pending
        /\ IF ~FindManyArgsOk(req.filters)
           THEN Throw(r, req, PrismaValidationError)
           ELSE IF next.pending = {}
           THEN Finish(r, next, ListResponse(next, next.rows, next.total))
           ELSE Continue(r, next, "findMany")
        /\ UNCHANGED <<usuarios, eliminados, db, seqGrupo, nreq>>

\* listar -> findMany: the count query of Promise.all.
ListarCount(r) ==
    LET req == reqs[r]
        total == FindManyCount(Read, req.filters)
        next == [req EXCEPT !.total = total, !.pending = @ \ {"count"},
                            !.contado = <<Read.grupos>>]
    IN  /\ At(r, "listar", "findMany")
        /\ "count" \in req.pending
        /\ IF next.pending = {}
           THEN Finish(r, next, ListResponse(next, next.rows, next.total))
           ELSE Continue(r, next, "findMany")
        /\ UNCHANGED <<usuarios, eliminados, db, seqGrupo, nreq>>

\* obtenerGruposUsuario -> findByUsuarioId
MisGruposFind(r) ==
    /\ At(r, "misGrupos", "findByUsuarioId")
    /\ \E out \in FindByUsuarioIdResults(Read, reqs[r].usuarioId) :
          Finish(r, reqs[r], Success(200, out, ""))
    /\ UNCHANGED <<usuarios, eliminados, db, seqGrupo, nreq>>

\* obtenerPorId -> findById
ObtenerFindById(r) ==
    LET req == reqs[r]
        grupo == findById(Read, req.id)
    IN  /\ At(r, "obtener", "findById")
        /\ IF grupo = <<>>
           THEN Throw(r, req, NotFoundError("Grupo Economico", {req.id}))
           ELSE Continue(r, [req EXCEPT !.found = grupo], "verificarAcceso")
        /\ UNCHANGED <<usuarios, eliminados, db, seqGrupo, nreq>>

\* obtenerPorId -> verificarAccesoUsuario
ObtenerAcceso(r) ==
    LET req == reqs[r]
    IN  /\ At(r, "obtener", "verificarAcceso")
        /\ IF ~verificarAccesoUsuario(Read, req.id, req.usuarioId)
           THEN Throw(r, req, NoAccessError)
           ELSE Finish(r, req, Success(200, req.found, ""))
        /\ UNCHANGED <<usuarios, eliminados, db, seqGrupo, nreq>>

\* create, 1: tx.grupoEconomico.create; the id comes from the sequence.
CrearInsertGrupo(r) ==
    LET req == reqs[r]
        row == CreateData(seqGrupo + 1, req.data)
    IN  /\ At(r, "crear", "insertGrupo")
        /\ seqGrupo' = seqGrupo + 1
        /\ Continue(r, [req EXCEPT !.tx.grupos = <<row>>, !.id = row.id],
                    "insertUsuarioGrupo")
        /\ UNCHANGED <<usuarios, eliminados, db, nreq>>

\* A creator who is made CONTADOR.
CreadorRowContador(usuarioId, grupoId) == UsuarioGrupoRow(usuarioId, grupoId, "CONTADOR")

\* The membership of the creator.
CreadorRow(usuarioId, grupoId) == UsuarioGrupoRow(usuarioId, grupoId, "ADMIN")

\* create, 2: tx.usuarioGrupo.create
CrearInsertUsuarioGrupo(r) ==
    LET req == reqs[r]
        row == CreadorRow(req.usuarioId, req.tx.grupos[1].id)
    IN  /\ At(r, "crear", "insertUsuarioGrupo")
        /\ Continue(r, [req EXCEPT !.tx.usuariosGrupos = @ \cup {row}],
                    "insertConfiguracion")
        /\ UNCHANGED <<usuarios, eliminados, db, seqGrupo, nreq>>

\* create, 3: tx.configuracionContable.create
CrearInsertConfiguracion(r) ==
    LET req == reqs[r]
        row == ConfiguracionRow(req.tx.grupos[1].id)
    IN  /\ At(r, "crear", "insertConfiguracion")
        /\ Continue(r, [req EXCEPT !.tx.configuraciones = @ \cup {row}], "insertPlan")
        /\ UNCHANGED <<usuarios, eliminados, db, seqGrupo, nreq>>

\* create, 4: tx.planDeCuentas.create
CrearInsertPlan(r) ==
    LET req == reqs[r]
        row == PlanRow(req.tx.grupos[1].id, req.tx.grupos[1].nombre)
    IN  /\ At(r, "crear", "insertPlan")
        /\ Continue(r, [req EXCEPT !.tx.planesDeCuentas = @ \cup {row}], "findUnique")
        /\ UNCHANGED <<usuarios, eliminados, db, seqGrupo, nreq>>

\* create, 5: tx.grupoEconomico.findUnique, then the callback returns and
\* the transaction commits.
CrearFindUnique(r) ==
    LET req == reqs[r]
        grupo == findById(TxSnapshot(Committed, req.tx), req.id)
    IN  /\ At(r, "crear", "findUnique")
        /\ SetTables(WithTx(Committed, req.tx))
        /\ Finish(r, [req EXCEPT !.wrote = TRUE],
                  Success(201, grupo, "Grupo economico creado correctamente"))
        /\ UNCHANGED <<usuarios, eliminados, seqGrupo, nreq>>

\* actualizar -> exists
ActualizarExists(r) ==
    LET req == reqs[r]
    IN  /\ At(r, "actualizar", "exists")
        /\ IF ~exists(Read, req.id)
           THEN Throw(r, req, NotFoundError("Grupo Economico", {req.id}))
           ELSE Continue(r, req, "verificarAcceso")
        /\ UNCHANGED <<usuarios, eliminados, db, seqGrupo, nreq>>

\* actualizar -> verificarAccesoUsuario, then validarDatosGrupo
ActualizarAcceso(r) ==
    LET req == reqs[r]
        invalid == IF ActualizarValida(req.data) THEN validarDatosGrupo(req.data)
                   ELSE <<>>
    IN  /\ At(r, "actualizar", "verificarAcceso")
        /\ IF ~verificarAccesoUsuario(Read, req.id, req.usuarioId)
           THEN Throw(r, req, NoAccessError)
           ELSE IF invalid # <<>>
           THEN Throw(r, req, invalid[1])
           ELSE Continue(r, req, "update")
        /\ UNCHANGED <<usuarios, eliminados, db, seqGrupo, nreq>>

\* actualizar -> update; a missing row makes Prisma throw P2025.
ActualizarUpdate(r) ==
    LET req == reqs[r]
        after == [Committed EXCEPT !.grupos[req.id] = UpdateData(@, req.data)]
    IN  /\ At(r, "actualizar", "update")
        /\ IF req.id \notin DOMAIN grupos
           THEN /\ Throw(r, req, PrismaKnownError("P2025", <<>>))
                /\ UNCHANGED db
           ELSE /\ SetTables(after)
                /\ Finish(r, [req EXCEPT !.wrote = TRUE],
                          Success(200, <<UpdateView(after, req.id)>>,
                                  "Grupo economico actualizado correctamente"))
        /\ UNCHANGED <<usuarios, eliminados, seqGrupo, nreq>>

\* eliminar -> findById
EliminarFindById(r) ==
    LET req == reqs[r]
        grupo == findById(Read, req.id)
    IN  /\ At(r, "eliminar", "findById")
        /\ IF grupo = <<>>
           THEN Throw(r, req, NotFoundError("Grupo Economico", {req.id}))
           ELSE Continue(r, [req EXCEPT !.found = grupo], "verificarAcceso")
        /\ UNCHANGED <<usuarios, eliminados, db, seqGrupo, nreq>>

\* A check of the companies that finds none active.
SinEmpresasActivas(grupo) == FALSE

\* grupo.empresas.some((e) => e.activa)
TieneEmpresasActivas(grupo) == \E e \in grupo.empresas : e.activa

\* An eliminar that writes before it checks the companies.
EliminarAccesoEscribeAntes(r) ==
    LET req == reqs[r]
        after == [Committed EXCEPT !.grupos[req.id] = DeleteData(@)]
    IN  /\ At(r, "eliminar", "verificarAcceso")
        /\ IF ~verificarAccesoUsuario(Read, req.id, req.usuarioId)
           THEN Throw(r, req, NoAccessError) /\ UNCHANGED db
           ELSE IF TieneEmpresasActivas(req.found[1])
           THEN /\ SetTables(after)
                /\ Throw(r, req, BusinessRuleError(
                      "No se puede eliminar un grupo con empresas activas",
                      "EMPRESAS_ACTIVAS"))
           ELSE Continue(r, req, "delete") /\ UNCHANGED db
        /\ UNCHANGED <<usuarios, eliminados, seqGrupo, nreq>>

\* eliminar -> verificarAccesoUsuario, then the check of the companies that
\* findById returned
EliminarAcceso(r) ==
    LET req == reqs[r]
    IN  /\ At(r, "eliminar", "verificarAcceso")
        /\ IF ~verificarAccesoUsuario(Read, req.id, req.usuarioId)
           THEN Throw(r, req, NoAccessError)
           ELSE IF TieneEmpresasActivas(req.found[1])
           THEN Throw(r, req, BusinessRuleError(
                    "No se puede eliminar un grupo con empresas activas",
                    "EMPRESAS_ACTIVAS"))
           ELSE Continue(r, req, "delete")
        /\ UNCHANGED <<usuarios, eliminados, db, seqGrupo, nreq>>

\* A delete that writes back the row it found, with the flag lowered.
EliminarDeleteFilaLeida(r) ==
    LET req == reqs[r]
        after == [Committed EXCEPT !.grupos[req.id] = DeleteData(req.found[1].grupo)]
    IN  /\ At(r, "eliminar", "delete")
        /\ IF req.id \notin DOMAIN grupos
           THEN /\ Throw(r, req, PrismaKnownError("P2025", <<>>))
                /\ UNCHANGED db
           ELSE /\ SetTables(after)
                /\ Finish(r, [req EXCEPT !.wrote = TRUE],
                          [Success(200, NoData, "Grupo economico eliminado correctamente")
                              EXCEPT !.success = TRUE])
        /\ eliminados' = IF req.id \in DOMAIN grupos THEN eliminados \cup {req.id}
                         ELSE eliminados
        /\ UNCHANGED <<usuarios, seqGrupo, nreq>>

\* eliminar -> delete
EliminarDelete(r) ==
    LET req == reqs[r]
        after == [Committed EXCEPT !.grupos[req.id] = DeleteData(@)]
    IN  /\ At(r, "eliminar", "delete")
        /\ IF req.id \notin DOMAIN grupos
           THEN /\ Throw(r, req, PrismaKnownError("P2025", <<>>))
                /\ UNCHANGED db
           ELSE /\ SetTables(after)
                /\ Finish(r, [req EXCEPT !.wrote = TRUE],
                          [Success(200, NoData, "Grupo economico eliminado correctamente")
                              EXCEPT !.success = TRUE])
        /\ eliminados' = IF req.id \in DOMAIN grupos THEN eliminados \cup {req.id}
                         ELSE eliminados
        /\ UNCHANGED <<usuarios, seqGrupo, nreq>>

\* A database call of a request in flight fails: the error propagates to
\* errorHandler; inside create the transaction is rolled back.
InFlight(r) == reqs[r].pc \notin {"idle", "done"}

DbFail(r, error) ==
    /\ InFlight(r)
    /\ SetTables(AfterRollback(Committed, reqs[r].tx))
    /\ Throw(r, [reqs[r] EXCEPT !.dbError = TRUE,
                                 !.wrote = AfterRollback(Committed, reqs[r].tx) # Committed],
              error)
    /\ UNCHANGED <<usuarios, eliminados, seqGrupo, nreq>>

\* The response is sent and the slot is free again.
Reply(r) ==
    /\ reqs[r].pc = "done"
    /\ reqs' = [reqs EXCEPT ![r] = IdleReq]
    /\ UNCHANGED <<usuarios, eliminados, db, seqGrupo, nreq>>

-----------------------------------------------------------------------------
\* The initial rows (tests/utils/db-cleaner.ts, seedTestData) and the inputs.

SeedNombre == <<"g", "t", "1">>
SeedRut == <<"2", "1", "7", "8", "9", "0", "1", "2", "0", "0", "1", "8">>

\* Users 1..3 are the seeded members of group 1; user 4 has no membership
\* and user 5 is deactivated.
SeedUsuarios ==
    [i \in 1..5 |->
        [activo |-> i # 5,
         email |-> <<"admin@test.com", "contador@test.com", "operativo@test.com",
                     "singrupo@test.com", "inactivo@test.com">>[i],
         nombre |-> <<"Admin Test", "Contador Test", "Operativo Test",
                      "Sin Grupo Test", "Inactivo Test">>[i]]]

SeedUsuariosGrupos ==
    {UsuarioGrupoRow(1, 1, "ADMIN"), UsuarioGrupoRow(2, 1, "CONTADOR"),
     UsuarioGrupoRow(3, 1, "OPERATIVO"), UsuarioGrupoRow(5, 1, "OPERATIVO")}

\* The two seeded companies of group 1, each active or not.
SeedEmpresas ==
    {{EmpresaRow(1, 1, a[1]), EmpresaRow(2, 1, a[2])} :
        a \in {<<TRUE, TRUE>>, <<FALSE, FALSE>>}}

\* The database as the seed leaves it, the slots idle, and n requests ahead.
InitWith(n) ==
    /\ usuarios = SeedUsuarios
    /\ grupos = (1 :> GrupoRow(1, SeedNombre, SeedRut, "UY", "UYU", TRUE, 1))
    /\ usuariosGrupos = SeedUsuariosGrupos
    /\ configuraciones = {ConfiguracionRow(1)}
    /\ planesDeCuentas = {PlanRow(1, SeedNombre)}
    /\ empresas \in SeedEmpresas
    /\ seqGrupo = 1
    /\ reqs = [r \in Slots |-> IdleReq]
    /\ nreq = n
    /\ eliminados = {}

Init == InitWith(MaxRequests)

NombreABC == <<"a", "b", "c">>
NombreXYZ == <<"x", "y", "z">>
NombreVacio == <<>>
NombreCorto == <<"a", "b">>
NombreRelleno == <<" ", "a", "b", " ">>
NombreBlanco == <<" ", " ", " ">>
NombreLargo == [i \in 1..(NombreMax + 1) |-> "x"]
RutCorto == <<"1", "2", "3">>

\* x-user-id headers.  The member 1 (ADMIN) of group 1 sends every input,
\* the member 2 (CONTADOR) every id and the probe inputs; the requests that
\* authenticateUser rejects (no header, user 4 without membership,
\* deactivated user 5, unknown user 9, a header that is no number, a failing
\* lookup) send the probe inputs.
Admin == <<<<"1">>, "ok">>
Contador == <<<<"2">>, "ok">>
Operativo == <<<<"3">>, "ok">>
Members == {Admin, Contador}
Rejected == {<<Undefined, "ok">>, <<<<"4">>, "ok">>, <<<<"5">>, "ok">>,
             <<<<"9">>, "ok">>, <<<<"x">>, "ok">>, <<<<"1">>, "throws">>}

IdTexts == {<<"1">>, <<"2">>, <<"x">>}

\* The id 0: the schema of the parameters accepts it and no group has it.
IdCero == <<"0">>

\* POST bodies: bodies the schema accepts, and bodies with one fault.
ValidCreateBodies ==
    {Body(CreateKeys \ {"rutControlador"}, {}, n, <<>>, pm[1], pm[2], FALSE) :
        n \in {NombreABC, NombreXYZ},
        pm \in {<<"UY", "UYU">>, <<"UY", "USD">>, <<"UY", "ARS">>, <<"AR", "ARS">>}}
    \cup {Body(CreateKeys, {}, NombreABC, rut, "UY", "UYU", FALSE) :
            rut \in {<<>>, SeedRut}}

BaseCreateBody == Body(CreateKeys, {}, NombreABC, SeedRut, "UY", "UYU", FALSE)

FaultyCreateBodies ==
    {[BaseCreateBody EXCEPT !.nombre = n] :
        n \in {NombreVacio, NombreCorto, NombreRelleno, NombreBlanco, NombreLargo}}
    \cup {[BaseCreateBody EXCEPT !.rutControlador = RutCorto],
          [BaseCreateBody EXCEPT !.paisPrincipal = "ZZ"],
          [BaseCreateBody EXCEPT !.monedaBase = "ZZZ"],
          [BaseCreateBody EXCEPT !.has = @ \ {"nombre"}],
          [BaseCreateBody EXCEPT !.nombre = NombreRelleno, !.monedaBase = "ARS"]}

CreateBodies == ValidCreateBodies \cup FaultyCreateBodies

\* A body whose absent keys hold the values of EmptyBody.
Normalized(b) ==
    Body(b.has, b.mistyped,
         IF "nombre" \in b.has THEN b.nombre ELSE <<>>,
         IF "rutControlador" \in b.has THEN b.rutControlador ELSE <<>>,
         IF "paisPrincipal" \in b.has THEN b.paisPrincipal ELSE "",
         IF "monedaBase" \in b.has THEN b.monedaBase ELSE "",
         IF "activo" \in b.has THEN b.activo ELSE FALSE)

\* PUT bodies: the empty patch, the patches of one field, the patches of
\* country and currency together, and patches with one fault.
PatchKeys ==
    {{}} \cup {{f} : f \in BodyFields} \cup {{"paisPrincipal", "monedaBase"}}

ValidPatchBodies ==
    {Normalized(Body(has, {}, NombreXYZ, rut, p, m, a)) :
        has \in PatchKeys,
        rut \in {<<>>, SeedRut}, p \in {"UY", "AR"}, m \in {"UYU", "USD", "ARS"},
        a \in BOOLEAN}

FaultyPatchBodies ==
    {Body({"nombre"}, {}, NombreCorto, <<>>, "", "", FALSE),
     Body({"nombre"}, {}, NombreVacio, <<>>, "", "", FALSE),
     Body({"nombre"}, {}, NombreLargo, <<>>, "", "", FALSE),
     Body({"nombre"}, {}, NombreRelleno, <<>>, "", "", FALSE),
     Body({"nombre"}, {}, NombreBlanco, <<>>, "", "", FALSE),
     Body({"rutControlador"}, {}, <<>>, RutCorto, "", "", FALSE),
     Body({"paisPrincipal"}, {}, <<>>, <<>>, "ZZ", "", FALSE),
     Body({"activo"}, {"activo"}, <<>>, <<>>, "", "", FALSE),
     Body({"nombre", "paisPrincipal", "monedaBase"}, {}, NombreRelleno, <<>>,
          "UY", "ARS", FALSE)}

PatchBodies == ValidPatchBodies \cup FaultyPatchBodies

\* A patch the schema accepts and validarDatosGrupo rejects.
PatchUruguayPesoArgentino ==
    Body({"paisPrincipal", "monedaBase"}, {}, <<>>, <<>>, "UY", "ARS", FALSE)

TextTrue == <<"t", "r", "u", "e">>
TextFalse == <<"f", "a", "l", "s", "e">>

Queries ==
    {Query(Undefined, Undefined, Undefined, ac, "") :
        ac \in {Undefined, TextTrue, TextFalse, <<"x">>}}
    \cup {Query(<<"2">>, <<"1">>, Undefined, Undefined, ""),
          Query(<<"1", ".", "5">>, Undefined, Undefined, Undefined, ""),
          Query(<<"1", ".", "5">>, <<"1">>, Undefined, Undefined, ""),
          Query(Undefined, <<"1", "0", "0">>, Undefined, Undefined, ""),
          Query(<<"0">>, Undefined, Undefined, Undefined, ""),
          Query(Undefined, <<"1", "0", "1">>, Undefined, Undefined, "")}

\* Errors of a failing database call: a unique constraint, a foreign key,
\* and an error that is no Prisma request error (a lost connection).
DbErrors ==
    {PrismaKnownError("P2002", <<"nombre">>), PrismaKnownError("P2003", <<>>),
     PlainError(0)}

\* The probe inputs: one the schemas accept and one they reject.
ProbeIds == {<<"1">>, <<"x">>}
ProbeCreates == {BaseCreateBody, [BaseCreateBody EXCEPT !.paisPrincipal = "ZZ"]}
ProbePatches == {Body({"activo"}, {}, <<>>, <<>>, "", "", FALSE),
                 Body({"activo"}, {"activo"}, <<>>, <<>>, "", "", FALSE)}
ProbeQueries == {Query(Undefined, Undefined, Undefined, Undefined, ""),
                 Query(<<"0">>, Undefined, Undefined, Undefined, "")}

\* The requests of the sequential specification, per endpoint.
Pools ==
    [listar |-> ({Admin} \X Queries) \cup ((Rejected \cup {Contador}) \X ProbeQueries),
     misGrupos |-> Members \cup Rejected,
     obtener |-> (Members \X (IdTexts \cup {IdCero})) \cup (Rejected \X ProbeIds),
     crear |-> ({Admin} \X CreateBodies) \cup ((Rejected \cup {Contador}) \X ProbeCreates),
     actualizar |->
        ({Admin} \X {<<"1">>} \X PatchBodies)
        \cup (Members \X {<<"2">>} \X {PatchUruguayPesoArgentino})
        \cup {<<Operativo, <<"1">>, Body({"activo"}, {}, <<>>, <<>>, "", "", FALSE)>>}
        \cup (Members \X IdTexts \X ProbePatches)
        \cup (Rejected \X ProbeIds \X ProbePatches),
     eliminar |-> (Members \X IdTexts) \cup {<<Operativo, <<"1">>>>}
                  \cup (Rejected \X ProbeIds),
     errors |-> DbErrors]

-----------------------------------------------------------------------------
\* The next-state relation over the slots S with the inputs P.

NextWith(S, P) ==
    \E r \in S :
        \/ \E c \in P.listar : ListarReq(r, c[1][1], c[1][2], c[2])
        \/ \E c \in P.misGrupos : MisGruposReq(r, c[1], c[2])
        \/ \E c \in P.obtener : ObtenerReq(r, c[1][1], c[1][2], c[2])
        \/ \E c \in P.crear : CrearReq(r, c[1][1], c[1][2], c[2])
        \/ \E c \in P.actualizar : ActualizarReq(r, c[1][1], c[1][2], c[2], c[3])
        \/ \E c \in P.eliminar : EliminarReq(r, c[1][1], c[1][2], c[2])
        \/ ListarRows(r)
        \/ ListarCount(r)
        \/ MisGruposFind(r)
        \/ ObtenerFindById(r)
        \/ ObtenerAcceso(r)
        \/ CrearInsertGrupo(r)
        \/ CrearInsertUsuarioGrupo(r)
        \/ CrearInsertConfiguracion(r)
        \/ CrearInsertPlan(r)
        \/ CrearFindUnique(r)
        \/ ActualizarExists(r)
        \/ ActualizarAcceso(r)
        \/ ActualizarUpdate(r)
        \/ EliminarFindById(r)
        \/ EliminarAcceso(r)
        \/ EliminarDelete(r)
        \/ \E e \in P.errors : DbFail(r, e)
        \/ Reply(r)

\* Requests served one after the other.
Next == NextWith({1}, Pools)

Spec == Init /\ [][Next]_vars

\* Requests served concurrently: their database calls interleave.
ConcPools ==
    [listar |-> {<<<<<<"1">>, "ok">>, Query(Undefined, Undefined, Undefined, Undefined, "")>>},
     misGrupos |-> {<<<<"1">>, "ok">>},
     obtener |-> {Admin} \X {<<"2">>},
     crear |-> {<<<<"1">>, "ok">>} \X
               {Body(CreateKeys \ {"rutControlador"}, {}, NombreABC, <<>>, "UY", "UYU", FALSE),
                Body(CreateKeys \ {"rutControlador"}, {}, NombreXYZ, <<>>, "AR", "ARS", FALSE)},
     actualizar |-> {<<Admin, <<"2">>, Body({"nombre"}, {}, NombreXYZ, <<>>, "", "", FALSE)>>,
                     <<Admin, <<"1">>, Body({"activo"}, {}, <<>>, <<>>, "", "", FALSE)>>},
     eliminar |-> {Admin} \X {<<"2">>},
     errors |-> {PlainError(0)}]

NextConc == NextWith(Slots, ConcPools)

SpecConc == Init /\ [][NextConc]_vars

\* The errors a call of a request in flight can end with: the Prisma request
\* errors handlePrismaError tells apart and one it does not, a Prisma
\* validation error, and errors of other origin with and without statusCode.
AllErrors ==
    {PrismaKnownError("P2002", <<"nombre">>), PrismaKnownError("P2002", <<>>),
     PrismaKnownError("P2025", <<>>), PrismaKnownError("P2003", <<>>),
     PrismaKnownError("P2024", <<>>), PrismaValidationError,
     PlainError(0), PlainError(400), PlainError(404), PlainError(413)}

\* Requests that end in each kind of error, and requests that succeed.
ErrorPools ==
    [listar |-> (Members \cup {<<Undefined, "ok">>}) \X ProbeQueries,
     misGrupos |-> {<<<<"1">>, "ok">>, <<<<"5">>, "ok">>, <<<<"1">>, "throws">>},
     obtener |-> Members \X {<<"2">>, <<"x">>},
     crear |-> {<<<<"1">>, "ok">>} \X
               {Body(CreateKeys \ {"rutControlador"}, {}, NombreABC, <<>>, "UY", "UYU", FALSE),
                Body(CreateKeys \ {"rutControlador"}, {}, NombreABC, <<>>, "UY", "ARS", FALSE),
                [BaseCreateBody EXCEPT !.nombre = NombreCorto, !.paisPrincipal = "ZZ"]},
     actualizar |-> {<<<<"1">>, "ok">>} \X {<<"1">>, <<"2">>} \X
                    {Body({"nombre"}, {}, NombreXYZ, <<>>, "", "", FALSE)},
     eliminar |-> {<<<<"1">>, "ok">>} \X {<<"1">>},
     errors |-> AllErrors]

NextErrores == NextWith({1}, ErrorPools)

SpecErrores == Init /\ [][NextErrores]_vars

\* Listings of callers with different memberships, concurrent with each
\* other, after a create by a third user.
ListaPools ==
    [listar |-> {Admin, Contador, Operativo} \X
                {Query(Undefined, Undefined, Undefined, Undefined, "")},
     misGrupos |-> {Admin},
     obtener |-> {Admin} \X {<<"2">>},
     crear |-> {Operativo} \X
               {Body(CreateKeys \ {"rutControlador"}, {}, NombreABC, <<>>, "AR", "ARS", FALSE)},
     actualizar |-> {<<Admin, <<"1">>, Body(BodyFields \ {"activo"}, {}, NombreXYZ, <<>>,
                                           "AR", "ARS", FALSE)>>},
     eliminar |-> {Admin} \X {<<"1">>},
     errors |-> {PlainError(0)}]

\* Two requests at a time: the property is one of pairs of listings.
NextLista == NextWith({1, 2}, ListaPools)

SpecLista == InitWith(MaxRequests + 1) /\ [][NextLista]_vars

\* A longer run of one client: a delete, an update that reactivates and a
\* listing fit in it, or a create, a delete and a listing.
LongQueries ==
    {Query(Undefined, Undefined, Undefined, ac, "") :
        ac \in {Undefined, TextTrue, TextFalse, <<"x">>}}
    \cup {Query(<<"2">>, <<"1">>, Undefined, TextFalse, ""),
          Query(Undefined, Undefined, Undefined, TextFalse, "AR")}

LongPools ==
    [listar |-> {<<<<"1">>, "ok">>} \X LongQueries,
     misGrupos |-> {<<<<"1">>, "ok">>},
     obtener |-> {<<<<"1">>, "ok">>} \X {<<"1">>},
     crear |-> {<<<<"1">>, "ok">>} \X
               {Body(CreateKeys \ {"rutControlador"}, {}, NombreABC, <<>>, "AR", "ARS", FALSE)},
     actualizar |-> {<<<<"1">>, "ok">>} \X {<<"1">>} \X
                    {Body({"activo"}, {}, <<>>, <<>>, "", "", TRUE)},
     eliminar |-> {<<<<"1">>, "ok">>} \X {<<"1">>, <<"2">>},
     errors |-> {PlainError(0)}]

InitLargo == InitWith(MaxRequests + 1)

NextLargo == NextWith({1}, LongPools)

SpecLargo == InitLargo /\ [][NextLargo]_vars

-----------------------------------------------------------------------------
\* Properties of create, delete and update (C1 - C10).

\* seedTestData inserts group 1; every other group comes from create.
SeedIds == {1}

\* The request req has ended, and it was a call of op.
Done(req, op) == req.pc = "done" /\ req.op = op

\* The request req passed authenticateUser.
Autenticado(req) == req.usuarioId > 0

ConfiguracionesDe(confs, id) == {c \in confs : c.grupoEconomicoId = id}
PlanesDe(plans, id) == {p \in plans : p.grupoEconomicoId = id}
EmpresasActivasDe(id) == {e \in empresas : e.grupoEconomicoId = id /\ e.activa}

\* What a response shows of a created group: one configuration and one chart
\* (update returns the chart only).
ObservaCompleto(req) ==
    (/\ req.pc = "done"
     /\ req.resp.status \in {200, 201}
     /\ req.op \in {"obtener", "crear", "actualizar"}
     /\ req.resp.data[1].grupo.id \notin SeedIds)
    => /\ Cardinality(req.resp.data[1].planDeCuentas) = 1
       /\ req.op # "actualizar" => Cardinality(req.resp.data[1].configuracion) = 1

InsertPcs == {"insertGrupo", "insertUsuarioGrupo", "insertConfiguracion", "insertPlan"}

\* C2: when one of the four inserts of create fails, no row that create
\* wrote persists (the tables are what they were, none of them holds a row
\* of the group that was being created) and the caller gets an error
\* response.
C2_RollbackOnFailure ==
    [][\A r \in Slots :
          (/\ reqs[r].op = "crear"
           /\ reqs[r].pc \in InsertPcs
           /\ reqs'[r].pc = "done")
          => /\ db' = db
             /\ reqs[r].id \notin DOMAIN grupos'
             /\ reqs[r].id > 0 =>
                   /\ ConfiguracionesDe(configuraciones', reqs[r].id) = {}
                   /\ PlanesDe(planesDeCuentas', reqs[r].id) = {}
                   /\ \A a \in usuariosGrupos' : a.grupoEconomicoId # reqs[r].id
             /\ reqs'[r].resp.status >= 400
             /\ reqs'[r].resp.code # ""
             /\ reqs'[r].resp.data = NoData]_vars

\* C2 happens: a create failed after it had inserted its group row, and the
\* group is not in the table.
C2_Witness ==
    \E r \in Slots :
        /\ Done(reqs[r], "crear")
        /\ reqs[r].dbError
        /\ reqs[r].id > 0
        /\ reqs[r].id \notin DOMAIN grupos
        /\ reqs[r].resp.status >= 400

\* C3: a delete by a member of an existing group is rejected with 422 and
\* the rule EMPRESAS_ACTIVAS, the active flag left as it was, when the group
\* has an active company; when it has none the delete succeeds and the flag
\* is false.
C3_DeleteGuard ==
    \A r \in Slots :
        LET req == reqs[r]
        IN  (/\ Done(req, "eliminar")
             /\ Autenticado(req)
             /\ ~req.dbError
             /\ req.id \in DOMAIN grupos
             /\ verificarAccesoUsuario(Committed, req.id, req.usuarioId))
            => IF EmpresasActivasDe(req.id) # {}
               THEN /\ req.resp.status = 422
                    /\ req.resp.code = "BUSINESS_RULE_VIOLATION"
                    /\ req.resp.rule = "EMPRESAS_ACTIVAS"
                    /\ ~req.wrote
                    /\ grupos[req.id] = req.found[1].grupo
               ELSE /\ req.resp.status = 200
                    /\ req.resp.success
                    /\ ~grupos[req.id].activo

\* C3 happens: a delete of a group with active companies was rejected.
C3_Witness ==
    \E r \in Slots :
        /\ Done(reqs[r], "eliminar")
        /\ reqs[r].resp.rule = "EMPRESAS_ACTIVAS"
        /\ EmpresasActivasDe(reqs[r].id) # {}
        /\ grupos[reqs[r].id].activo

\* C4: no step takes the active flag of a group that has an active company
\* from true to false.
C4_ActiveCompaniesKeepGroupActive ==
    [][\A id \in DOMAIN grupos :
          (grupos[id].activo /\ ~grupos'[id].activo) => EmpresasActivasDe(id) = {}]_vars

\* C5, as the specification states it: a group whose active flag is false
\* keeps it false under every step.
C5_Original ==
    [][\A id \in DOMAIN grupos : ~grupos[id].activo => ~grupos'[id].activo]_vars

\* The step in which the request of slot r runs its update of the group id.
UpdateStep(r, id) ==
    /\ At(r, "actualizar", "update")
    /\ reqs[r].id = id
    /\ reqs'[r].pc = "done"
    /\ ~reqs'[r].dbError

\* C5, amended: the active flag of a group goes from false to true only in
\* the update of a request whose patch carries activo = true, and such an
\* update does set it to true; no create, delete, read or other update
\* reactivates a group.
C5_ReactivationOnlyByUpdate ==
    [][\A id \in DOMAIN grupos :
          /\ (~grupos[id].activo /\ grupos'[id].activo) =>
                \E r \in Slots : /\ UpdateStep(r, id)
                                 /\ "activo" \in reqs[r].data.has
                                 /\ reqs[r].data.activo
          /\ \A r \in Slots :
                (UpdateStep(r, id) /\ "activo" \in reqs[r].data.has /\ reqs[r].data.activo)
                => grupos'[id].activo]_vars

\* C5 happens: an update without activo went through on an inactive group,
\* and the group is still inactive.
C5_Witness ==
    \E r \in Slots :
        /\ Done(reqs[r], "actualizar")
        /\ reqs[r].resp.status = 200
        /\ "activo" \notin reqs[r].data.has
        /\ ~grupos[reqs[r].id].activo

\* C6: every persisted group whose country is UY has UYU or USD as its base
\* currency.
C6_UruguayCurrency ==
    \A id \in DOMAIN grupos :
        grupos[id].paisPrincipal = "UY" => grupos[id].monedaBase \in {"UYU", "USD"}

\* The payload b gives the country UY with a base currency other than UYU
\* and USD, and its name, if it gives one, passes the check of the name.
UruguayOtraMoneda(b) ==
    /\ "paisPrincipal" \in b.has
    /\ b.paisPrincipal = "UY"
    /\ "monedaBase" \in b.has
    /\ b.monedaBase \notin {"UYU", "USD"}
    /\ "nombre" \in b.has => Len(Trim(b.nombre)) \notin 1..(NombreMin - 1)

RechazoMoneda(req) ==
    /\ req.resp.status = 422
    /\ req.resp.code = "BUSINESS_RULE_VIOLATION"
    /\ req.resp.rule = "MONEDA_INVALIDA_PAIS"
    /\ ~req.wrote

C8_SoftDelete ==
    [][/\ DOMAIN grupos \subseteq DOMAIN grupos'
       /\ \A r \in Slots :
             (/\ At(r, "eliminar", "delete")
              /\ reqs'[r].pc = "done"
              /\ ~reqs'[r].dbError)
             => /\ grupos' = [grupos EXCEPT ![reqs[r].id].activo = FALSE]
                /\ UNCHANGED <<usuariosGrupos, configuraciones, planesDeCuentas,
                               empresas, usuarios>>
       /\ \A r \in Slots :
             (/\ Done(reqs'[r], "obtener")
              /\ Autenticado(reqs'[r])
              /\ ~reqs'[r].dbError
              /\ reqs'[r].id \in DOMAIN grupos'
              /\ verificarAccesoUsuario(Committed', reqs'[r].id, reqs'[r].usuarioId))
             => /\ reqs'[r].resp.status = 200
                /\ reqs'[r].resp.data = findById(Committed', reqs'[r].id)]_vars

\* C8 happens: a member got a group whose active flag is false.
C8_Witness ==
    \E r \in Slots :
        /\ Done(reqs[r], "obtener")
        /\ reqs[r].resp.status = 200
        /\ ~reqs[r].resp.data[1].grupo.activo
        /\ reqs[r].resp.data[1].grupo.nombre = SeedNombre
        /\ reqs[r].resp.data[1].grupo.rutControlador = SeedRut

\* C9: the group a successful create returns has its creator as ADMIN; the
\* ADMIN of a created group stays its member, and getById of the group by
\* that user is never answered 403 and, when no database call fails,
\* returns the group.
C9_CreatorIsAdmin ==
    /\ \A r \in Slots :
          (Done(reqs[r], "crear") /\ reqs[r].resp.status = 201)
          => UsuarioGrupoRow(reqs[r].usuarioId, reqs[r].resp.data[1].grupo.id, "ADMIN")
                \in usuariosGrupos
    /\ \A id \in DOMAIN grupos \ SeedIds :
          \E a \in usuariosGrupos : a.grupoEconomicoId = id /\ a.rol = "ADMIN"
    /\ \A r \in Slots :
          (/\ Done(reqs[r], "obtener")
           /\ reqs[r].id \notin SeedIds
           /\ UsuarioGrupoRow(reqs[r].usuarioId, reqs[r].id, "ADMIN") \in usuariosGrupos)
          => /\ reqs[r].resp.status # 403
             /\ ~reqs[r].dbError =>
                   /\ reqs[r].resp.status = 200
                   /\ reqs[r].resp.data[1].grupo.id = reqs[r].id

\* C9 happens: the creator of a group got it with getById.
C9_Witness ==
    \E r \in Slots :
        /\ Done(reqs[r], "obtener")
        /\ reqs[r].id \notin SeedIds
        /\ UsuarioGrupoRow(reqs[r].usuarioId, reqs[r].id, "ADMIN") \in usuariosGrupos
        /\ reqs[r].resp.status = 200

\* C10: a request without the x-user-id header, to any endpoint and with any
\* parameters, query and body, is answered 401 UNAUTHORIZED at its arrival,
\* before the schemas and the service, and writes nothing.
C10_NoHeaderUnauthorized ==
    \A r \in Slots :
        (reqs[r].pc # "idle" /\ reqs[r].header = Undefined)
        => /\ reqs[r].pc = "done"
           /\ reqs[r].resp.status = 401
           /\ reqs[r].resp.code = "UNAUTHORIZED"
           /\ reqs[r].resp.details = {}
           /\ reqs[r].resp.data = NoData
           /\ ~Autenticado(reqs[r])
           /\ ~reqs[r].wrote
           /\ ~reqs[r].dbError

\* C10 happens: an update without the header, its body one the schema
\* rejects, was answered 401.
C10_Witness ==
    \E r \in Slots :
        /\ Done(reqs[r], "actualizar")
        /\ reqs[r].header = Undefined
        /\ ~UpdateGrupoSchema(reqs[r].body).ok
        /\ reqs[r].resp.status = 401

-----------------------------------------------------------------------------
\* Properties of authentication, reads, validation and errors (C11 - C20).

\* What authenticateUser has to do with the header and the lookup of a
\* request: the status it throws, or 0 when it attaches request.user.
AuthEsperado(req) ==
    LET id == ToNumber(req.header)
    IN  IF req.header = Undefined THEN 401
        ELSE IF req.lookup = "throws" \/ id = NaN THEN 401
        ELSE IF id \notin DOMAIN usuarios THEN 401
        ELSE IF ~usuarios[id].activo THEN 403
        ELSE IF \A a \in usuariosGrupos : a.usuarioId # id THEN 403
        ELSE 0

\* C11: authenticateUser attaches to the request the id, email and name of
\* the user of the header with the group and role of one of the user's
\* memberships, or the request ends with 401 UNAUTHORIZED (no header, a
\* failing lookup, an unknown user) or 403 FORBIDDEN (a deactivated user, a
\* user without membership); it ends with no other error.
C11_AuthUserOrError ==
    \A r \in Slots :
        LET req == reqs[r]
        IN  req.pc # "idle" =>
              IF AuthEsperado(req) = 0
              THEN /\ req.user.id = ToNumber(req.header)
                   /\ req.user.email = usuarios[req.user.id].email
                   /\ req.user.nombre = usuarios[req.user.id].nombre
                   /\ UsuarioGrupoRow(req.user.id, req.user.grupoEconomicoId, req.user.rol)
                         \in usuariosGrupos
              ELSE /\ req.pc = "done"
                   /\ req.user = NoUser
                   /\ req.resp.status = AuthEsperado(req)
                   /\ req.resp.code = (IF AuthEsperado(req) = 401 THEN "UNAUTHORIZED"
                                       ELSE "FORBIDDEN")
                   /\ ~req.wrote

\* C11 happens: the lookup of an existing member failed and the request was
\* answered 401.
C11_Witness ==
    \E r \in Slots :
        /\ reqs[r].pc = "done"
        /\ reqs[r].lookup = "throws"
        /\ ToNumber(reqs[r].header) \in DOMAIN usuarios
        /\ reqs[r].resp.status = 401

\* C12: a getById that reaches the service and whose database calls do not
\* fail is answered 404 NOT_FOUND, the message carrying the id, exactly when
\* no group has the id, whatever the memberships of the caller; 403
\* FORBIDDEN exactly when the group exists and the caller has no membership
\* in it; and otherwise 200 with the group, active or not.
C12_GetByIdOutcome ==
    \A r \in Slots :
        LET req == reqs[r]
        IN  (/\ Done(req, "obtener")
             /\ Autenticado(req)
             /\ GrupoParamsSchema(req.idText).ok
             /\ ~req.dbError)
            => IF req.id \notin DOMAIN grupos
               THEN /\ req.resp.status = 404
                    /\ req.resp.code = "NOT_FOUND"
                    /\ req.resp.msgIds = {req.id}
               ELSE IF UsuarioGrupoRow(req.usuarioId, req.id, "ADMIN") \notin usuariosGrupos
                       /\ UsuarioGrupoRow(req.usuarioId, req.id, "CONTADOR") \notin usuariosGrupos
                       /\ UsuarioGrupoRow(req.usuarioId, req.id, "OPERATIVO") \notin usuariosGrupos
               THEN /\ req.resp.status = 403
                    /\ req.resp.code = "FORBIDDEN"
               ELSE /\ req.resp.status = 200
                    /\ req.resp.data = <<GrupoView(Committed, req.id)>>

\* The value the patch data gives the field f of a group: the tax id ""
\* stands for null.
ValorDelPatch(data, f) ==
    IF f = "rutControlador" /\ data[f] = <<>> THEN Null ELSE data[f]

\* C13: a successful update sets every field the patch carries to the value
\* of the patch and leaves every field the patch does not carry, and every
\* other group, as it was; the response shows the row as it is stored.
C13_UpdateChangesPatchOnly ==
    [][\A r \in Slots : \A id \in DOMAIN grupos :
          (UpdateStep(r, id) /\ reqs'[r].resp.status = 200)
          => /\ \A f \in BodyFields :
                   grupos'[id][f] = IF f \in reqs[r].data.has
                                    THEN ValorDelPatch(reqs[r].data, f)
                                    ELSE grupos[id][f]
             /\ grupos'[id].id = grupos[id].id
             /\ grupos'[id].fechaCreacion = grupos[id].fechaCreacion
             /\ \A other \in DOMAIN grupos' \ {id} :
                   other \in DOMAIN grupos /\ grupos'[other] = grupos[other]
             /\ reqs'[r].resp.data[1].grupo = grupos'[id]]_vars

\* The body b gives a name, a string, of fewer than 3 or more than 200
\* characters.
NombreFueraDeRango(b) ==
    /\ "nombre" \in b.has
    /\ "nombre" \notin b.mistyped
    /\ (Len(b.nombre) < NombreMin \/ Len(b.nombre) > NombreMax)

\* C14: a create, and an update with a valid id parameter, of an
\* authenticated caller whose body gives a name of fewer than 3 or more than
\* 200 characters is answered 400 VALIDATION_ERROR with an entry for nombre
\* in the details, and writes nothing.
C14_NameLengthRejected ==
    \A r \in Slots :
        LET req == reqs[r]
        IN  (/\ req.pc # "idle"
             /\ AuthEsperado(req) = 0
             /\ \/ req.op = "crear"
                \/ req.op = "actualizar" /\ GrupoParamsSchema(req.idText).ok
             /\ NombreFueraDeRango(req.body))
            => /\ req.pc = "done"
               /\ req.resp.status = 400
               /\ req.resp.code = "VALIDATION_ERROR"
               /\ "details" \in req.resp.props
               /\ \E d \in req.resp.details : d.path = "nombre"
               /\ req.resp.data = NoData
               /\ ~req.wrote
               /\ ~req.dbError

\* C14 happens: an update with a name of 201 characters was answered 400.
C14_Witness ==
    \E r \in Slots :
        /\ Done(reqs[r], "actualizar")
        /\ Len(reqs[r].body.nombre) > NombreMax
        /\ reqs[r].resp.status = 400

\* C15: the stored name of every group is trimmed and has between 3 and 200
\* characters.
C15_StoredNameTrimmedInRange ==
    \A id \in DOMAIN grupos :
        /\ Trim(grupos[id].nombre) = grupos[id].nombre
        /\ Len(grupos[id].nombre) >= NombreMin
        /\ Len(grupos[id].nombre) <= NombreMax

\* The tax id a create or an update with the body b has to store, when b
\* gives one.
RutDelBody(b) == IF b.rutControlador = <<>> THEN Null ELSE b.rutControlador

\* C16: the stored tax id of every group is null or 12 digits; a create
\* stores the tax id of its body, null when the body gives none or the empty
\* string; an update stores the tax id of its patch, null for the empty
\* string, and leaves the stored one when the patch gives none; and a
\* request whose tax id is neither empty nor 12 digits is answered 400.
C16_TaxIdNullOrTwelveDigits ==
    [][/\ \A id \in DOMAIN grupos' :
             grupos'[id].rutControlador = Null \/ RutRegex(grupos'[id].rutControlador)
       /\ \A r \in Slots :
             LET req == reqs'[r]
             IN  /\ (At(r, "crear", "findUnique") /\ Done(req, "crear")
                        /\ req.resp.status = 201)
                    => grupos'[req.id].rutControlador =
                          IF "rutControlador" \in req.body.has
                          THEN RutDelBody(req.body) ELSE Null
                 /\ (UpdateStep(r, req.id) /\ req.resp.status = 200)
                    => grupos'[req.id].rutControlador =
                          IF "rutControlador" \in req.body.has
                          THEN RutDelBody(req.body)
                          ELSE grupos[req.id].rutControlador
                 /\ (/\ req.pc # "idle"
                     /\ req.op \in {"crear", "actualizar"}
                     /\ AuthEsperado(req) = 0
                     /\ "rutControlador" \in req.body.has
                     /\ req.body.rutControlador # <<>>
                     /\ ~RutRegex(req.body.rutControlador))
                    => /\ req.pc = "done"
                       /\ req.resp.status = 400
                       /\ req.resp.code = "VALIDATION_ERROR"
                       /\ ~req.wrote]_vars

\* C16 happens: an update with the empty string replaced the tax id of the
\* seeded group by null.
C16_Witness ==
    \E r \in Slots :
        /\ Done(reqs[r], "actualizar")
        /\ reqs[r].resp.status = 200
        /\ "rutControlador" \in reqs[r].body.has
        /\ reqs[r].body.rutControlador = <<>>
        /\ reqs[r].id \in SeedIds
        /\ grupos[reqs[r].id].rutControlador = Null

\* The page and the limit of the query q, defaults applied, in tenths.
PageDe(q) == Decimal(IF q.page = Undefined THEN PageDefault ELSE q.page)
LimitDe(q) == Decimal(IF q.limit = Undefined THEN LimitDefault ELSE q.limit)

\* C17: a list request of an authenticated caller, its other parameters
\* valid, goes on to the repository only when page is an integer greater
\* than 0 and limit an integer from 1 to 100; with any other page or limit
\* it is answered 400 VALIDATION_ERROR and the repository is not called.
C17_PageLimitIntegers ==
    \A r \in Slots :
        LET req == reqs[r]
        IN  (/\ req.op = "listar"
             /\ req.pc # "idle"
             /\ AuthEsperado(req) = 0
             /\ req.query.paisPrincipal \in PAISES_VALIDOS \cup {""})
            => IF /\ Entero(PageDe(req.query)) /\ PageDe(req.query) > 0
                  /\ Entero(LimitDe(req.query))
                  /\ LimitDe(req.query) >= 10 /\ LimitDe(req.query) <= 10 * LimitMax
               THEN ~(req.pc = "done" /\ req.resp.status = 400)
               ELSE /\ req.pc = "done"
                    /\ req.resp.status = 400
                    /\ req.resp.code = "VALIDATION_ERROR"

\* The stored groups that match the filters.
Coinciden(filters) == {grupos[i] : i \in {j \in DOMAIN grupos : Where(filters, grupos[j])}}

-----------------------------------------------------------------------------
\* Listing after a soft delete (C19).

\* The groups a DELETE has succeeded on and no update has reactivated since.
EliminadosVigentes == {id \in eliminados : ~grupos[id].activo}

ListaOk(req) == Done(req, "listar") /\ req.resp.status = 200

IdsDe(resp) == {resp.data[i].grupo.id : i \in 1..Len(resp.data)}

ActivoReconocido(q) == q.activo \in {TextTrue, TextFalse}

\* The filters of the request without the one on activo.
OtrosFiltros(filters) == [filters EXCEPT !.activo = "undefined"]

\* The page of the request reaches the position of the group among the
\* groups the filters select, newest first.
PaginaCubre(filters, id) ==
    LET rank == Cardinality({g \in Coinciden(filters) :
                                g.fechaCreacion > grupos[id].fechaCreacion})
        skip == Skip(filters) \div 100
        take == filters.limit \div 10
    IN  rank >= skip /\ rank < skip + take

\* What a list response owes to the deleted group id, and to a request
\* without a recognised activo value.
ListaRespeta(req, id) ==
    /\ req.filters.activo = "true" => id \notin IdsDe(req.resp)
    /\ (/\ req.filters.activo = "false"
        /\ Where(OtrosFiltros(req.filters), grupos[id])
        /\ PaginaCubre(req.filters, id))
       => \E i \in 1..Len(req.resp.data) :
             /\ req.resp.data[i].grupo.id = id
             /\ req.resp.data[i].grupo.activo = FALSE

SinFiltroActivo(req) ==
    ~ActivoReconocido(req.query)
    => /\ req.filters.activo = "undefined"
       /\ req.resp.pagination.total
          = Cardinality({i \in DOMAIN grupos : Where(OtrosFiltros(req.filters), grupos[i])})
       /\ \A i \in DOMAIN grupos :
             (Where(req.filters, grupos[i]) /\ PaginaCubre(req.filters, i))
             => \E k \in 1..Len(req.resp.data) : req.resp.data[k].grupo = grupos[i]

\* C19 as stated: once a DELETE of a group has succeeded, no list response
\* with activo=true contains the group, a list with activo=false whose
\* other filters and page cover it contains it with activo false, and a
\* list without a recognised activo value applies no filter on activo.
C19_Original ==
    \A r \in Slots :
        ListaOk(reqs[r])
        => /\ \A id \in eliminados : ListaRespeta(reqs[r], id)
           /\ SinFiltroActivo(reqs[r])

\* C19: once a DELETE of a group has succeeded, and as long as no update
\* has set its activo back to true, no list response with activo=true
\* contains the group, and a list with activo=false whose other filters and
\* page cover it contains it with activo false; a list without a recognised
\* activo value (absent, or a text other than "true" and "false") applies
\* no filter on activo and returns the groups of both states.
C19_DeletedGroupInLists ==
    \A r \in Slots :
        ListaOk(reqs[r])
        => /\ \A id \in EliminadosVigentes : ListaRespeta(reqs[r], id)
           /\ SinFiltroActivo(reqs[r])

\* C19 happens: after DELETE /api/grupos/1 succeeded, a list with
\* activo=false holds group 1 with activo false.
C19_Witness ==
    \E r \in Slots :
        /\ ListaOk(reqs[r])
        /\ reqs[r].query.activo = TextFalse
        /\ 1 \in EliminadosVigentes
        /\ \E i \in 1..Len(reqs[r].resp.data) :
              /\ reqs[r].resp.data[i].grupo.id = 1
              /\ reqs[r].resp.data[i].grupo.activo = FALSE

\* The original C19 fails: DELETE /api/grupos/1, then PUT /api/grupos/1
\* with {"activo": true}, then a list with activo=true that holds group 1.
C19_Reactivado ==
    \E r \in Slots :
        /\ ListaOk(reqs[r])
        /\ reqs[r].query.activo = TextTrue
        /\ 1 \in eliminados
        /\ 1 \in IdsDe(reqs[r].resp)

-----------------------------------------------------------------------------
\* The error handler (C20).

Fallo(req) == req.pc = "done" /\ req.error # <<>>

EsPrisma(e) ==
    e.class \in {"PrismaClientKnownRequestError", "PrismaClientValidationError"}

\* The rule of errorHandler that takes the error: the first that matches.
Regla(e) ==
    IF e.class = "AppError" THEN 1
    ELSE IF e.class = "ZodError" THEN 2
    ELSE IF EsPrisma(e) THEN 3
    ELSE IF e.statusCode \in {404, 413} THEN 4
    ELSE 5

\* The messages of the issues of a ZodError, per field.
DetallesPorCampo(e) ==
    [path \in {i.path : i \in e.details} |-> {i.message : i \in {x \in e.details : x.path = path}}]

DetallesDe(resp) ==
    [path \in {i.path : i \in resp.details} |-> {i.message : i \in {x \in resp.details : x.path = path}}]

\* C20: every error thrown by authentication, validation, service or
\* repository reaches errorHandler, which sends one response by the first
\* rule that matches: an AppError gives its statusCode, code and message,
\* with details, field and rule only when the error has them; a ZodError
\* gives 400 VALIDATION_ERROR with the messages per field; a Prisma error
\* gives the status and the code of handlePrismaError; another error with
\* statusCode 404 or 413 gives that status with a fixed body; every other
\* error gives 500 INTERNAL_ERROR.  A request that ended without an error
\* has a 2xx response.
C20_ErrorHandlerRules ==
    \A r \in Slots :
        LET req == reqs[r]
            e == req.error[1]
            resp == req.resp
        IN  /\ (req.pc = "done" /\ req.error = <<>>) => resp.status \in {200, 201}
            /\ req.pc \notin {"done"} => req.error = <<>>
            /\ Fallo(req) =>
                  /\ Regla(e) = 1 =>
                        /\ resp.status = e.statusCode
                        /\ resp.code = e.code
                        /\ resp.message = e.message
                        /\ resp.props = e.props
                        /\ "details" \in e.props => resp.details = e.details
                        /\ "field" \in e.props => resp.field = e.field
                        /\ "rule" \in e.props => resp.rule = e.rule
                        /\ "details" \notin e.props => resp.details = {}
                        /\ "field" \notin e.props => resp.field = ""
                        /\ "rule" \notin e.props => resp.rule = ""
                  /\ Regla(e) = 2 =>
                        /\ resp.status = 400
                        /\ resp.code = "VALIDATION_ERROR"
                        /\ resp.props = {"details"}
                        /\ DetallesDe(resp) = DetallesPorCampo(e)
                  /\ Regla(e) = 3 =>
                        /\ resp.status = handlePrismaError(e).statusCode
                        /\ resp.code = handlePrismaError(e).code
                        /\ resp.status = (IF e.prismaCode = "P2002" THEN 409
                                          ELSE IF e.prismaCode = "P2025" THEN 404
                                          ELSE IF e.prismaCode = "P2003" THEN 422
                                          ELSE 500)
                  /\ Regla(e) = 4 =>
                        /\ resp.status = e.statusCode
                        /\ resp.code = (IF e.statusCode = 404 THEN "NOT_FOUND"
                                        ELSE "PAYLOAD_TOO_LARGE")
                        /\ resp.props = {}
                  /\ Regla(e) = 5 =>
                        /\ resp.status = 500
                        /\ resp.code = "INTERNAL_ERROR"

\* C20 happens: a NotFoundError, an AppError whose statusCode is 404, got
\* the response of the first rule, with its own message and not the fixed
\* body of the statusCode rule.
C20_Witness ==
    \E r \in Slots :
        /\ Fallo(reqs[r])
        /\ reqs[r].error[1].class = "AppError"
        /\ reqs[r].error[1].statusCode = 404
        /\ reqs[r].resp.status = 404
        /\ reqs[r].resp.message = "Grupo Economico"
        /\ reqs[r].resp.msgIds = {2}

-----------------------------------------------------------------------------
\* Reads, order of the checks, authorization and effects (C21 - C30).

\* The ids of the groups the user has a membership row for.
GruposDelUsuario(usuarioId) ==
    {a.grupoEconomicoId : a \in {x \in usuariosGrupos : x.usuarioId = usuarioId}}

\* C21: GET /api/grupos/mis-grupos returns the groups, active or inactive,
\* that have a membership row of the authenticated caller, each once and no
\* other group, as they are stored, by name ascending.
C21_MisGruposOfCaller ==
    \A r \in Slots :
        LET req == reqs[r]
            data == req.resp.data
        IN  (Done(req, "misGrupos") /\ req.resp.status = 200)
            => /\ req.usuarioId = ToNumber(req.header)
               /\ {data[k].id : k \in 1..Len(data)} = GruposDelUsuario(req.usuarioId)
               /\ Len(data) = Cardinality(GruposDelUsuario(req.usuarioId))
               /\ \A k \in 1..Len(data) :
                     /\ data[k].id \in DOMAIN grupos
                     /\ data[k].nombre = grupos[data[k].id].nombre
                     /\ data[k].paisPrincipal = grupos[data[k].id].paisPrincipal
                     /\ data[k].monedaBase = grupos[data[k].id].monedaBase
                     /\ data[k].activo = grupos[data[k].id].activo
               /\ \A k \in 1..Len(data) : \A l \in 1..Len(data) :
                     k < l => TextLeq(data[k].nombre, data[l].nombre)

\* C21 happens: the caller is a member of the seeded group and of a group
\* created later whose name sorts first; the answer holds the later group
\* first, and no group the caller has no membership of exists in it.
C21_Witness ==
    \E r \in Slots :
        /\ Done(reqs[r], "misGrupos")
        /\ reqs[r].resp.status = 200
        /\ Len(reqs[r].resp.data) = 2
        /\ reqs[r].resp.data[1].id = 2
        /\ reqs[r].resp.data[2].id = 1
        /\ reqs[r].resp.data[1].nombre # reqs[r].resp.data[2].nombre

\* The patch names one of the fields the cross-field validation looks at.
PatchConCamposValidados(dto) ==
    {"nombre", "paisPrincipal", "monedaBase"} \cap dto.has # {}

\* The status the checks of an update give, the first failing one deciding.
EstadoEsperadoActualizar(req) ==
    LET id == ToNumber(req.idText)
        dto == UpdateGrupoSchema(req.body).dto
    IN  IF ~IdRegex(req.idText) THEN 400
        ELSE IF ~UpdateGrupoSchema(req.body).ok THEN 400
        ELSE IF id \notin DOMAIN grupos THEN 404
        ELSE IF ~\E a \in usuariosGrupos :
                    a.usuarioId = req.usuarioId /\ a.grupoEconomicoId = id THEN 403
        ELSE IF PatchConCamposValidados(dto) /\ validarDatosGrupo(dto) # <<>> THEN 422
        ELSE 200

\* C22: an update of an authenticated caller, no database call failing,
\* gets the status of the first failing check in the order id format (400),
\* body schema (400), existence of the group (404), membership of the
\* caller (403), business validation (422, only when the patch has nombre,
\* paisPrincipal or monedaBase); the repository update runs only when all
\* pass, and an invalid id is reported alone, before the body is looked at.
C22_UpdateCheckOrder ==
    \A r \in Slots :
        LET req == reqs[r]
        IN  (Done(req, "actualizar") /\ Autenticado(req) /\ ~req.dbError)
            => /\ req.resp.status = EstadoEsperadoActualizar(req)
               /\ req.wrote <=> req.resp.status = 200
               /\ ~IdRegex(req.idText)
                  => {i.path : i \in req.resp.details} = {"id"}
               /\ req.resp.status = 404 => req.resp.code = "NOT_FOUND"
               /\ req.resp.status = 403 => req.resp.code = "FORBIDDEN"
               /\ req.resp.status = 422 => req.resp.code = "BUSINESS_RULE_VIOLATION"
               /\ req.resp.status = 400 => req.resp.code = "VALIDATION_ERROR"

\* C22 happens: an update of a group that does not exist, its patch one the
\* business validation would reject, was answered 404.
C22_Witness ==
    \E r \in Slots :
        /\ Done(reqs[r], "actualizar")
        /\ Autenticado(reqs[r])
        /\ reqs[r].id \notin DOMAIN grupos
        /\ validarDatosGrupo(reqs[r].data) # <<>>
        /\ reqs[r].resp.status = 404
        /\ ~reqs[r].wrote

\* C23: handlePrismaError maps a Prisma error by its code: P2002 to a
\* ConflictError (409 CONFLICT) whose field is the first element of the
\* target of the constraint, or 'campo' when there is none; P2025 to a
\* NotFoundError (404 NOT_FOUND); P2003 to a BusinessRuleError (422) without
\* a rule; every other one to a non-operational AppError with status 500
\* and code DATABASE_ERROR.  The response has that status and that code.
C23_PrismaErrorMapping ==
    \A r \in Slots :
        LET req == reqs[r]
            e == req.error[1]
            a == handlePrismaError(e)
        IN  (Fallo(req) /\ EsPrisma(e))
            => /\ a.class = "AppError"
               /\ e.prismaCode = "P2002"
                  => /\ a.statusCode = 409 /\ a.code = "CONFLICT" /\ a.isOperational
                     /\ a.props = {"field"}
                     /\ a.field = (IF Len(e.target) > 0 THEN e.target[1] ELSE "campo")
               /\ e.prismaCode = "P2025"
                  => /\ a.statusCode = 404 /\ a.code = "NOT_FOUND" /\ a.isOperational
                     /\ a.props = {} /\ a.msgIds = {}
               /\ e.prismaCode = "P2003"
                  => /\ a.statusCode = 422 /\ a.code = "BUSINESS_RULE_VIOLATION"
                     /\ a.isOperational
                     /\ "rule" \notin a.props /\ a.rule = ""
               /\ e.prismaCode \notin {"P2002", "P2025", "P2003"}
                  => /\ a.statusCode = 500 /\ a.code = "DATABASE_ERROR"
                     /\ ~a.isOperational /\ a.props = {}
               /\ req.resp.status = a.statusCode
               /\ req.resp.code = a.code

\* C23 happens: a unique constraint without a target was answered 409, the
\* field of the error it was mapped to being 'campo'.
C23_Witness ==
    \E r \in Slots :
        /\ Fallo(reqs[r])
        /\ reqs[r].error[1].prismaCode = "P2002"
        /\ reqs[r].error[1].target = <<>>
        /\ handlePrismaError(reqs[r].error[1]).field = "campo"
        /\ reqs[r].resp.status = 409
        /\ reqs[r].resp.code = "CONFLICT"

ListaOk200(req) == Done(req, "listar") /\ req.resp.status = 200

\* C24: the answer of a listing does not depend on the caller: two
\* authenticated callers who send the same query, their queries reading the
\* same rows, get the same data and the same pagination, whatever their
\* memberships; the data holds groups the caller is no member of.
C24_ListIndependentOfCaller ==
    \A r \in Slots : \A s \in Slots :
        (/\ ListaOk200(reqs[r])
         /\ ListaOk200(reqs[s])
         /\ reqs[r].query = reqs[s].query
         /\ reqs[r].leido = reqs[s].leido
         /\ reqs[r].contado = reqs[s].contado)
        => /\ reqs[r].resp.data = reqs[s].resp.data
           /\ reqs[r].resp.pagination = reqs[s].resp.pagination

\* C24 happens: a caller who is a member of the group 2 and a caller who is
\* not got the same answer to the same query, group 2 in it.
C24_Witness ==
    \E r \in Slots : \E s \in Slots :
        /\ ListaOk200(reqs[r])
        /\ ListaOk200(reqs[s])
        /\ reqs[r].query = reqs[s].query
        /\ reqs[r].usuarioId # reqs[s].usuarioId
        /\ verificarAccesoUsuario(Committed, 2, reqs[r].usuarioId)
        /\ ~verificarAccesoUsuario(Committed, 2, reqs[s].usuarioId)
        /\ reqs[r].resp.data = reqs[s].resp.data
        /\ reqs[r].resp.pagination = reqs[s].resp.pagination
        /\ \E k \in 1..Len(reqs[s].resp.data) : reqs[s].resp.data[k].grupo.id = 2

\* The caller has a membership row of the group, whatever its role.
TieneMembresia(usuarioId, grupoId) ==
    \E a \in usuariosGrupos : a.usuarioId = usuarioId /\ a.grupoEconomicoId = grupoId

RolesDe(usuarioId, grupoId) ==
    {a.rol : a \in {x \in usuariosGrupos :
                        x.usuarioId = usuarioId /\ x.grupoEconomicoId = grupoId}}

\* C25: an update or a delete of an existing group by an authenticated
\* caller, its id and body valid and no database call failing, is answered
\* 403 exactly when the caller has no membership row of the group; with a
\* row of any role it goes on as for an ADMIN: the update to its business
\* validation and its write, the delete to the check of the companies and
\* its write.
C25_MembershipNotRole ==
    \A r \in Slots :
        LET req == reqs[r]
            id == ToNumber(req.idText)
        IN  (/\ req.pc = "done"
             /\ req.op \in {"actualizar", "eliminar"}
             /\ Autenticado(req)
             /\ ~req.dbError
             /\ IdRegex(req.idText)
             /\ req.op = "actualizar" => UpdateGrupoSchema(req.body).ok
             /\ id \in DOMAIN grupos)
            => /\ req.resp.status = 403 <=> ~TieneMembresia(req.usuarioId, id)
               /\ req.resp.status = 403 => ~req.wrote /\ req.resp.code = "FORBIDDEN"
               /\ (TieneMembresia(req.usuarioId, id) /\ req.op = "actualizar")
                  => /\ req.resp.status = EstadoEsperadoActualizar(req)
                     /\ req.resp.status \in {200, 422}
               /\ (TieneMembresia(req.usuarioId, id) /\ req.op = "eliminar")
                  => IF EmpresasActivasDe(id) # {}
                     THEN req.resp.status = 422
                     ELSE req.resp.status = 200 /\ ~grupos[id].activo

\* C25 happens: a member whose role is OPERATIVO deleted the group.
C25_Witness ==
    \E r \in Slots :
        /\ Done(reqs[r], "eliminar")
        /\ reqs[r].resp.status = 200
        /\ reqs[r].wrote
        /\ RolesDe(reqs[r].usuarioId, reqs[r].id) = {"OPERATIVO"}
        /\ ~grupos[reqs[r].id].activo

\* The step ends the request of slot r.
Termina(r) == reqs[r].pc \notin {"idle", "done"} /\ reqs'[r].pc = "done"

\* C26: a step changes the persisted rows only when it ends a create, an
\* update or a delete with a 2xx response; the steps of list, mis-grupos and
\* get by id, and every step that ends a request with an error response,
\* leave the rows as they are, and a GET /:id that succeeds returns the
\* stored group, so that a repeated one returns the same data when nothing
\* was written in between.
C26_WritesOnlyOnSuccess ==
    [][/\ db' # db
          => \E r \in Slots :
                /\ Termina(r)
                /\ reqs[r].op \in {"crear", "actualizar", "eliminar"}
                /\ reqs'[r].resp.status \in {200, 201}
       /\ \A r \in Slots :
             (Termina(r) /\ reqs'[r].resp.status >= 400) => db' = db
       /\ \A r \in Slots :
             (reqs'[r] # reqs[r] /\ reqs'[r].op \in {"listar", "misGrupos", "obtener"})
             => db' = db
       /\ \A r \in Slots :
             (Termina(r) /\ reqs[r].op = "obtener" /\ reqs'[r].resp.status = 200)
             => reqs'[r].resp.data = findById(Committed', reqs'[r].id)]_vars

\* C26 happens: a create ended with 500 after a database call of its
\* transaction failed, and no row of its group is stored.
C26_Witness ==
    \E r \in Slots :
        /\ Done(reqs[r], "crear")
        /\ reqs[r].dbError
        /\ reqs[r].resp.status = 500
        /\ reqs[r].id # 0
        /\ reqs[r].id \notin DOMAIN grupos
        /\ ~\E a \in usuariosGrupos : a.grupoEconomicoId = reqs[r].id

\* The groups of the table g that the filters select.
CoincidenEn(g, filters) == {i \in DOMAIN g : Where(filters, g[i])}

Min(a, b) == IF a < b THEN a ELSE b
Max(a, b) == IF a > b THEN a ELSE b

\* C27: every list response is that of one snapshot of the store, also
\* with creates, updates and deletes running at the same time: total is the
\* number of groups the filters select in the state the data was read from,
\* the data has no more rows than total, and data.length is
\* min(limit, max(0, total - (page-1)*limit)).
C27_ListSnapshot ==
    \A r \in Slots :
        LET req == reqs[r]
            p == req.filters.page \div 10
            l == req.filters.limit \div 10
            total == req.resp.pagination.total
        IN  (/\ ListaOk200(req)
             /\ Entero(req.filters.page)
             /\ Entero(req.filters.limit))
            => /\ total = Cardinality(CoincidenEn(req.leido[1], req.filters))
               /\ Len(req.resp.data) <= total
               /\ Len(req.resp.data) = Min(l, Max(0, total - (p - 1) * l))

\* The users the seed gives no membership row.
SinMembresiaInicial ==
    {u \in DOMAIN SeedUsuarios : ~\E a \in SeedUsuariosGrupos : a.usuarioId = u}

\* C28: a user without a membership row in the initial state has none in
\* any state, and each of their requests, to any endpoint, create included,
\* is answered 403 FORBIDDEN by authenticateUser at its arrival and writes
\* nothing; every membership row belongs to a user who had one initially.
C28_NoMembershipNoAccess ==
    /\ \A a \in usuariosGrupos : a.usuarioId \notin SinMembresiaInicial
    /\ \A r \in Slots :
          (/\ reqs[r].pc # "idle"
           /\ reqs[r].lookup = "ok"
           /\ ToNumber(reqs[r].header) \in SinMembresiaInicial
           /\ usuarios[ToNumber(reqs[r].header)].activo)
          => /\ reqs[r].pc = "done"
             /\ reqs[r].resp.status = 403
             /\ reqs[r].resp.code = "FORBIDDEN"
             /\ reqs[r].resp.message = "Usuario sin grupo economico asignado"
             /\ reqs[r].resp.data = NoData
             /\ ~Autenticado(reqs[r])
             /\ ~reqs[r].wrote

\* C28 happens: a create of the user without membership, its body one the
\* schema accepts, was answered 403.
C28_Witness ==
    \E r \in Slots :
        /\ Done(reqs[r], "crear")
        /\ ToNumber(reqs[r].header) \in SinMembresiaInicial
        /\ CreateGrupoSchema(reqs[r].body).ok
        /\ reqs[r].resp.status = 403
        /\ seqGrupo = 1

ResultadoEliminar ==
    [Success(200, NoData, "Grupo economico eliminado correctamente")
        EXCEPT !.success = TRUE]

\* C29: a delete by a member of a group that is already inactive and has no
\* active company, no database call failing, ends with the success result
\* of a first delete, {success: true, message}, and leaves the persisted
\* rows as they were; it is not answered 404 or 409.
C29_DeleteIdempotent ==
    [][\A r \in Slots :
          (/\ Termina(r)
           /\ reqs[r].op = "eliminar"
           /\ Autenticado(reqs[r])
           /\ ~reqs'[r].dbError
           /\ reqs[r].id \in DOMAIN grupos
           /\ TieneMembresia(reqs[r].usuarioId, reqs[r].id)
           /\ EmpresasActivasDe(reqs[r].id) = {})
          => /\ reqs'[r].resp = ResultadoEliminar
             /\ ~grupos[reqs[r].id].activo => db' = db
             /\ ~grupos'[reqs[r].id].activo]_vars

\* C29 happens: a delete of a group that a delete had made inactive before
\* succeeded.
C29_Witness ==
    \E r \in Slots :
        /\ Done(reqs[r], "eliminar")
        /\ reqs[r].resp = ResultadoEliminar
        /\ reqs[r].id \in eliminados
        /\ ~reqs[r].found[1].grupo.activo
        /\ ~grupos[reqs[r].id].activo

\* The columns of a group that a patch writes, and the value it gives each.
ColumnasDelPatch(data) ==
    {f \in data.has \ {"activo"} : f \notin {"nombre"} \/ Truthy(data, f)}

\* An update of group id without activo in its patch that succeeded.
ActualizoSinActivo(req, id) ==
    /\ Done(req, "actualizar")
    /\ req.resp.status = 200
    /\ req.id = id
    /\ "activo" \notin req.data.has

\* A delete of group id that succeeded.
Elimino(req, id) ==
    /\ Done(req, "eliminar")
    /\ req.resp.status = 200
    /\ req.id = id

\* C30: an update whose patch has no activo and a delete of the same group
\* that passes its guard both succeed when no database call fails, whatever
\* the order of their database steps, and once both are done the group is
\* inactive and holds the values of the patch in the patched columns,
\* which is what the two writes give in either order.
C30_UpdateDeleteCommute ==
    /\ \A r \in Slots :
          (/\ reqs[r].pc = "done"
           /\ reqs[r].op \in {"actualizar", "eliminar"}
           /\ Autenticado(reqs[r])
           /\ ~reqs[r].dbError
           /\ reqs[r].id \in SeedIds
           /\ TieneMembresia(reqs[r].usuarioId, reqs[r].id)
           /\ reqs[r].op = "actualizar" =>
                 /\ UpdateGrupoSchema(reqs[r].body).ok
                 /\ validarDatosGrupo(reqs[r].data) = <<>>
           /\ reqs[r].op = "eliminar" => EmpresasActivasDe(reqs[r].id) = {})
          => reqs[r].resp.status = 200
    /\ \A id \in DOMAIN grupos : \A r, s \in Slots :
          (ActualizoSinActivo(reqs[r], id) /\ Elimino(reqs[s], id))
          => /\ ~grupos[id].activo
             /\ \A f \in ColumnasDelPatch(reqs[r].data) :
                   grupos[id][f] = ValorDelPatch(reqs[r].data, f)
             /\ UpdateData(DeleteData(grupos[id]), reqs[r].data)
                    = DeleteData(UpdateData(grupos[id], reqs[r].data))
             /\ grupos[id] = DeleteData(UpdateData(grupos[id], reqs[r].data))

\* C30 happens: the delete read the group before the update wrote it and
\* wrote it after, and both succeeded.
C30_Witness ==
    \E id \in SeedIds : \E r, s \in Slots :
        /\ ActualizoSinActivo(reqs[r], id)
        /\ Elimino(reqs[s], id)
        /\ ColumnasDelPatch(reqs[r].data) # {}
        /\ reqs[r].resp.data[1].grupo.activo
        /\ reqs[s].found[1].grupo.nombre # reqs[r].data.nombre
        /\ ~grupos[id].activo
        /\ grupos[id].nombre = reqs[r].data.nombre

====
